---------------------------- MODULE Spec2Model ----------------------------
(***************************************************************************)
(* TicketGlass agent core (agent/core.py, agent/keywords.py): the          *)
(* process_ticket pipeline -- input check, sentiment detection, tone       *)
(* selection, context building, the Bedrock call and the parsing of its    *)
(* reply -- as a state machine.  Texts on which the code works character   *)
(* by character (feedback, keywords, replies) are tuples of one-character  *)
(* strings; identifiers and enum values are plain strings.                 *)
(***************************************************************************)
EXTENDS Integers, Sequences, FiniteSets, TLC

VARIABLES
    SENTIMENT_KEYWORDS_MAP, \* keywords.py: the process-wide keyword tables
    agent,                  \* Agent.__init__: system_prompt, model_id, aws_region
    ticket,                 \* the argument of process_ticket
    pc,                     \* position inside process_ticket
    previous_attempts,      \* local of process_ticket
    sentiment,              \* local of process_ticket
    tone,                   \* local of process_ticket
    user_context,           \* local of process_ticket
    requests,               \* invoke_model calls received by the Bedrock client
    service,                \* what the Bedrock client did with the call
    response_text,          \* local of process_ticket: _call_bedrock's result
    output,                 \* the AgentOutput returned
    error,                  \* the exception that left process_ticket
    log,                    \* records emitted by the module logger (level INFO)
    call,                   \* a function called on its own: its name and arguments
    retval,                 \* what that call returned
    threads,                \* process_ticket calls running side by side, by caller
    tickets,                \* data/adapters.py: MockTicketAdapter.tickets
    session_state           \* ui/app.py: st.session_state of the portal page

vars == <<SENTIMENT_KEYWORDS_MAP, agent, ticket, pc, previous_attempts, sentiment,
          tone, user_context, requests, service, response_text, output, error, log,
          call, retval, threads, tickets, session_state>>

-----------------------------------------------------------------------------
(* Text: tuples of one-character strings.                                  *)

\* the backquote character
BT == "BACKTICK"

UPPERCASE == <<"A","B","C","D","E","F","G","H","I","J","K","L","M",
               "N","O","P","Q","R","S","T","U","V","W","X","Y","Z">>
LOWERCASE == <<"a","b","c","d","e","f","g","h","i","j","k","l","m",
               "n","o","p","q","r","s","t","u","v","w","x","y","z">>

\* str.lower() on one character
lower_char(c) ==
    IF \E i \in DOMAIN UPPERCASE : UPPERCASE[i] = c
    THEN LOWERCASE[CHOOSE i \in DOMAIN UPPERCASE : UPPERCASE[i] = c]
    ELSE c

\* str.lower()
lower(text) == [i \in 1..Len(text) |-> lower_char(text[i])]

\* `word in text` on str: text holds word as a contiguous run
str_in(word, text) ==
    \E i \in 1..(Len(text) - Len(word) + 1) :
        SubSeq(text, i, i + Len(word) - 1) = word

\* Optional[str]: None is the empty tuple, a str s is <<s>>
None == <<>>
Some(s) == <<s>>

\* truth value of an Optional[str]: None and "" are falsy
truthy(opt) == opt # None /\ opt[1] # <<>>

-----------------------------------------------------------------------------
(* agent/keywords.py                                                       *)

FRUSTRATED_KEYWORDS == {
    <<"f", "r", "u", "s", "t", "r", "a", "t">>, <<"a", "n", "g", "r", "y">>, <<"m", "a", "d">>, <<"u", "p", "s", "e", "t">>, <<"u", "g", "h">>, <<"a", "r", "g", "h">>,
    <<"a", "n", "n", "o", "y", "e", "d">>, <<"t", "i", "r", "e", "d">>, <<"e", "x", "a", "s", "p", "e", "r", "a", "t">>, <<"f", "e", "d", " ", "u", "p">>, <<"e", "n", "o", "u", "g", "h">>,
    <<"s", "e", "r", "i", "o", "u", "s", "l", "y">>, <<"r", "i", "d", "i", "c", "u", "l", "o", "u", "s">>, <<"u", "n", "b", "e", "l", "i", "e", "v", "a", "b", "l", "e">>, <<"i", "m", "p", "o", "s", "s", "i", "b", "l", "e">>,
    <<"b", "r", "o", "k", "e", "n">>, <<"d", "o", "e", "s", "n", "'", "t", " ", "w", "o", "r", "k">>, <<"s", "t", "i", "l", "l", " ", "n", "o", "t", " ", "w", "o", "r", "k", "i", "n", "g">>,
    <<"b", "e", "e", "n", " ", "t", "r", "y", "i", "n", "g", " ", "a", "l", "l">> }

SATISFIED_KEYWORDS == {
    <<"t", "h", "a", "n", "k", "s">>, <<"t", "h", "a", "n", "k", " ", "y", "o", "u">>, <<"a", "w", "e", "s", "o", "m", "e">>, <<"g", "r", "e", "a", "t">>, <<"e", "x", "c", "e", "l", "l", "e", "n", "t">>,
    <<"p", "e", "r", "f", "e", "c", "t">>, <<"w", "o", "r", "k", "e", "d">>, <<"f", "i", "x", "e", "d">>, <<"s", "o", "l", "v", "e", "d">>, <<"f", "i", "n", "a", "l", "l", "y">>, <<"y", "e", "s">>,
    <<"y", "a", "y">>, <<"f", "a", "n", "t", "a", "s", "t", "i", "c">>, <<"a", "m", "a", "z", "i", "n", "g">>, <<"a", "p", "p", "r", "e", "c", "i", "a", "t", "e", "d">>, <<"h", "e", "l", "p", "f", "u", "l">>,
    <<"e", "x", "a", "c", "t", "l", "y">> }

CONFUSED_KEYWORDS == {
    <<"c", "o", "n", "f", "u", "s">>, <<"d", "o", "n", "'", "t", " ", "u", "n", "d", "e", "r", "s", "t", "a", "n", "d">>, <<"w", "h", "a", "t">>, <<"h", "u", "h">>, <<"m", "e", "a", "n">>,
    <<"u", "n", "c", "l", "e", "a", "r">>, <<"l", "o", "s", "t">>, <<"e", "x", "p", "l", "a", "i", "n">>, <<"a", "g", "a", "i", "n">>, <<"s", "o", "r", "r", "y">>, <<"c", "o", "n", "f", "u", "s", "e", "d">>,
    <<"n", "o", "t", " ", "s", "u", "r", "e">>, <<"d", "i", "d", "n", "'", "t", " ", "c", "a", "t", "c", "h">>, <<"l", "o", "s", "t", " ", "y", "o", "u">>, <<"s", "l", "o", "w", " ", "d", "o", "w", "n">> }

\* the initial value of SENTIMENT_KEYWORDS_MAP
InitialKeywordsMap ==
    [frustrated |-> FRUSTRATED_KEYWORDS,
     satisfied  |-> SATISFIED_KEYWORDS,
     confused   |-> CONFUSED_KEYWORDS]

\* get_sentiment_keywords for a category of the map (the ValueError branch
\* is not taken by the three fixed categories the detector asks for)
get_sentiment_keywords(category) == SENTIMENT_KEYWORDS_MAP[category]

-----------------------------------------------------------------------------
(* agent/core.py: enums                                                    *)

Phase == {"Received", "Assigned", "Diagnosed", "Resolved"}
Sentiment == {"frustrated", "satisfied", "neutral", "confused"}
ToneApplied == {"initial", "empathetic", "escalation", "celebratory", "simplified"}

-----------------------------------------------------------------------------
(* Agent._detect_sentiment and Agent._determine_tone                       *)

\* a detector that returns the stored estimate whatever the feedback says
detect_sentiment_prior_only(initial_sentiment, latest_feedback) == initial_sentiment

\* a detector that tests the satisfied table before the frustrated one
detect_sentiment_satisfied_first(initial_sentiment, latest_feedback) ==
    IF ~truthy(latest_feedback) THEN initial_sentiment
    ELSE LET feedback_lower == lower(latest_feedback[1]) IN
         IF \E word \in get_sentiment_keywords("satisfied") : str_in(word, feedback_lower)
         THEN "satisfied"
         ELSE IF \E word \in get_sentiment_keywords("frustrated") : str_in(word, feedback_lower)
         THEN "frustrated"
         ELSE IF \E word \in get_sentiment_keywords("confused") : str_in(word, feedback_lower)
         THEN "confused"
         ELSE initial_sentiment

_detect_sentiment(initial_sentiment, latest_feedback) ==
    IF ~truthy(latest_feedback) THEN initial_sentiment
    ELSE LET feedback_lower == lower(latest_feedback[1]) IN
         IF \E word \in get_sentiment_keywords("frustrated") : str_in(word, feedback_lower)
         THEN "frustrated"
         ELSE IF \E word \in get_sentiment_keywords("satisfied") : str_in(word, feedback_lower)
         THEN "satisfied"
         ELSE IF \E word \in get_sentiment_keywords("confused") : str_in(word, feedback_lower)
         THEN "confused"
         ELSE initial_sentiment

\* a selector that lets the sentiment rules go before the Resolved rule
determine_tone_sentiment_first(phase, sentiment_) ==
    IF sentiment_ = "frustrated" THEN "empathetic"
    ELSE IF sentiment_ = "confused" THEN "simplified"
    ELSE IF phase = "Resolved" THEN "celebratory"
    ELSE IF phase \in {"Diagnosed", "Resolved"} THEN "escalation"
    ELSE "initial"

\* a selector without the Diagnosed rule
determine_tone_no_escalation(phase, sentiment_) ==
    IF phase = "Resolved" THEN "celebratory"
    ELSE IF sentiment_ = "frustrated" THEN "empathetic"
    ELSE IF sentiment_ = "confused" THEN "simplified"
    ELSE "initial"

_determine_tone(phase, sentiment_) ==
    IF phase = "Resolved" THEN "celebratory"
    ELSE IF sentiment_ = "frustrated" THEN "empathetic"
    ELSE IF sentiment_ = "confused" THEN "simplified"
    ELSE IF phase \in {"Diagnosed", "Resolved"} THEN "escalation"
    ELSE "initial"

-----------------------------------------------------------------------------
(* More text operations used by the pipeline                               *)

DIGITS == <<"0","1","2","3","4","5","6","7","8","9">>

RECURSIVE str_int(_)
\* str(n) for a natural number
str_int(n) ==
    IF n < 10 THEN <<DIGITS[n + 1]>>
    ELSE str_int(n \div 10) \o <<DIGITS[(n % 10) + 1]>>

RECURSIVE join(_, _)
\* sep.join(parts)
join(sep, parts) ==
    IF parts = <<>> THEN <<>>
    ELSE IF Len(parts) = 1 THEN parts[1]
    ELSE parts[1] \o sep \o join(sep, Tail(parts))

WHITESPACE == {" ", "\n", "\t", "\r"}

RECURSIVE first_kept(_, _)
\* index of the first non-whitespace character at or after i, Len + 1 if none
first_kept(text, i) ==
    IF i > Len(text) THEN i
    ELSE IF text[i] \in WHITESPACE THEN first_kept(text, i + 1) ELSE i

RECURSIVE last_kept(_, _)
\* index of the last non-whitespace character at or before i, 0 if none
last_kept(text, i) ==
    IF i < 1 THEN i
    ELSE IF text[i] \in WHITESPACE THEN last_kept(text, i - 1) ELSE i

\* str.strip()
strip(text) == SubSeq(text, first_kept(text, 1), last_kept(text, Len(text)))

\* str.startswith(prefix)
startswith(text, prefix) ==
    Len(text) >= Len(prefix) /\ SubSeq(text, 1, Len(prefix)) = prefix

\* text[n:]
drop(text, n) == SubSeq(text, n + 1, Len(text))

\* text[:n]
take(text, n) == SubSeq(text, 1, IF Len(text) < n THEN Len(text) ELSE n)

RECURSIVE split(_, _)
\* str.split(sep) for a non-empty sep
split(text, sep) ==
    LET hits == {i \in 1..(Len(text) - Len(sep) + 1) :
                     SubSeq(text, i, i + Len(sep) - 1) = sep} IN
    IF hits = {} THEN <<text>>
    ELSE LET first == CHOOSE i \in hits : \A j \in hits : i <= j IN
         <<SubSeq(text, 1, first - 1)>> \o split(drop(text, first + Len(sep) - 1), sep)

\* n copies of the character c
repeat(c, n) == [i \in 1..n |-> c]

-----------------------------------------------------------------------------
(* Inputs: the agent, the tickets                                          *)

\* HeuristicThresholds.CLAUDE_MAX_TOKENS
CLAUDE_MAX_TOKENS == 1024

\* prompts.SYSTEM_PROMPT, the module's default prompt, and a caller's own
SYSTEM_PROMPT == "SYSTEM_PROMPT"
CustomPrompt == "You are TicketGlass, an agentic AI system."

DefaultModelId == "anthropic.claude-3-sonnet-20240229-v1:0"
OtherModelId == "anthropic.claude-3-haiku-20240307-v1:0"

\* Agent.__init__: a missing system_prompt becomes get_system_prompt()
DefaultAgent ==
    [system_prompt |-> SYSTEM_PROMPT, model_id |-> DefaultModelId, aws_region |-> "us-east-1"]

Agents ==
    { DefaultAgent,
      [system_prompt |-> CustomPrompt, model_id |-> OtherModelId, aws_region |-> "us-east-1"] }

StillNotWorking == <<"s", "t", "i", "l", "l", " ", "n", "o", "t", " ", "w", "o", "r", "k", "i", "n", "g", ",", " ", "t", "h", "i", "s", " ", "i", "s", " ", "r", "i", "d", "i", "c", "u", "l", "o", "u", "s">>

\* ContextEntry values the histories are built from
EntryPool ==
    { [phase |-> 1, timestamp |-> "2025-10-18T09:00:00Z",
       what_we_said |-> <<"C", "l", "e", "a", "r", " ", "y", "o", "u", "r", " ", "D", "N", "S", " ", "c", "a", "c", "h", "e", " ", "n", "o", "w">>,
       what_user_said_back |-> StillNotWorking,
       our_reasoning |-> <<"D", "N", "S", " ", "f", "i", "x", " ", "f", "i", "r", "s", "t">>],
      [phase |-> 2, timestamp |-> "2025-10-18T10:00:00Z",
       what_we_said |-> <<"C", "h", "e", "c", "k", " ", "y", "o", "u", "r", " ", "n", "e", "t", "w", "o", "r", "k", " ", "a", "d", "a", "p", "t", "e", "r", " ", "s", "e", "t", "t", "i", "n", "g", "s">>,
       what_user_said_back |-> <<"O", "k", ",", " ", "I", "'", "l", "l", " ", "t", "r", "y", " ", "t", "h", "a", "t", ".">>,
       our_reasoning |-> <<"E", "s", "c", "a", "l", "a", "t", "e", "d", " ", "t", "o", " ", "t", "h", "e", " ", "n", "e", "t", "w", "o", "r", "k", " ", "t", "e", "a", "m">>] }

\* longest context history of the tickets explored
MaxHistory == 1

Histories == UNION { [1..n -> EntryPool] : n \in 0..MaxHistory }

\* values of latest_user_feedback of the tickets explored
Feedbacks ==
    { None, Some(<<>>), Some(StillNotWorking), Some(<<"T", "h", "a", "t", " ", "w", "o", "r", "k", "e", "d", "!", " ", "T", "h", "a", "n", "k", "s", " ", "s", "o", " ", "m", "u", "c", "h", "!">>),
      Some(<<"I", " ", "d", "o", "n", "'", "t", " ", "u", "n", "d", "e", "r", "s", "t", "a", "n", "d", ".", " ", "W", "h", "a", "t", " ", "d", "o", "e", "s", " ", "t", "h", "a", "t", " ", "m", "e", "a", "n", "?">>), Some(<<"O", "k", ",", " ", "I", "'", "l", "l", " ", "t", "r", "y", " ", "t", "h", "a", "t", ".">>) }

TicketIds == {"TKT-001", "TKT-002"}

user_name_of(id) == IF id = "TKT-001" THEN <<"S", "a", "r", "a", "h", " ", "C", "h", "e", "n">> ELSE <<"J", "o", "r", "d", "a", "n", " ", "D", "a", "v", "i", "s">>
initial_issue_of(id) == IF id = "TKT-001" THEN <<"W", "i", "F", "i", " ", "w", "o", "n", "'", "t", " ", "c", "o", "n", "n", "e", "c", "t">> ELSE <<"E", "m", "a", "i", "l", " ", "s", "y", "n", "c", " ", "b", "r", "o", "k", "e", "n">>

\* the validated TicketState values handed to process_ticket
Tickets ==
    { [type |-> "TicketState", ticket_id |-> id, user_name |-> user_name_of(id),
       initial_issue |-> initial_issue_of(id), current_phase |-> ph,
       context_history |-> h, user_sentiment |-> s, latest_user_feedback |-> f] :
      id \in TicketIds, ph \in Phase, h \in Histories, s \in Sentiment, f \in Feedbacks }

\* an argument that is no TicketState: process_ticket("not a ticket")
NotATicket ==
    [type |-> "str", ticket_id |-> "not a ticket", user_name |-> <<>>,
     initial_issue |-> <<>>, current_phase |-> "Received", context_history |-> <<>>,
     user_sentiment |-> "neutral", latest_user_feedback |-> None]

\* isinstance(ticket, TicketState) without the TicketState test
isinstance_anything(t) == TRUE

\* isinstance(ticket, TicketState)
isinstance_TicketState(t) == t.type = "TicketState"

-----------------------------------------------------------------------------
(* Agent._extract_previous_attempts and Agent._build_user_context          *)

\* an extraction that keeps the two most recent entries only
extract_previous_attempts_recent_only(context_history) ==
    LET recent == SubSeq(context_history,
                         IF Len(context_history) > 2 THEN Len(context_history) - 1 ELSE 1,
                         Len(context_history))
    IN [attempted_fixes |-> [i \in 1..Len(recent) |-> recent[i].what_we_said],
        user_responses  |-> [i \in 1..Len(recent) |-> recent[i].what_user_said_back],
        escalations     |-> <<>>]

_extract_previous_attempts(context_history) ==
    IF context_history = <<>>
    THEN [attempted_fixes |-> <<>>, user_responses |-> <<>>, escalations |-> <<>>]
    ELSE LET flagged == SelectSeq(context_history,
                            LAMBDA entry : str_in(<<"e", "s", "c", "a", "l", "a", "t">>, lower(entry.our_reasoning)))
         IN [attempted_fixes |-> [i \in 1..Len(context_history) |-> context_history[i].what_we_said],
             user_responses  |-> [i \in 1..Len(context_history) |-> context_history[i].what_user_said_back],
             escalations     |-> [i \in 1..Len(flagged) |-> flagged[i].our_reasoning]]

\* Enum.value of a Phase or Sentiment member, as text
phase_value(ph) ==
    CASE ph = "Received" -> <<"R", "e", "c", "e", "i", "v", "e", "d">> [] ph = "Assigned" -> <<"A", "s", "s", "i", "g", "n", "e", "d">>
      [] ph = "Diagnosed" -> <<"D", "i", "a", "g", "n", "o", "s", "e", "d">> [] ph = "Resolved" -> <<"R", "e", "s", "o", "l", "v", "e", "d">>

sentiment_value(s) ==
    CASE s = "frustrated" -> <<"f", "r", "u", "s", "t", "r", "a", "t", "e", "d">> [] s = "satisfied" -> <<"s", "a", "t", "i", "s", "f", "i", "e", "d">>
      [] s = "neutral" -> <<"n", "e", "u", "t", "r", "a", "l">> [] s = "confused" -> <<"c", "o", "n", "f", "u", "s", "e", "d">>

\* the "i. item" lines of enumerate(items, 1)
numbered(items) == [i \in 1..Len(items) |-> str_int(i) \o <<".", " ">> \o items[i]]

_build_user_context(ticket_, previous_attempts_) ==
    LET context_parts ==
            << <<"U", "s", "e", "r", ":", " ">> \o ticket_.user_name,
               <<"I", "s", "s", "u", "e", ":", " ">> \o ticket_.initial_issue,
               <<"P", "h", "a", "s", "e", ":", " ">> \o phase_value(ticket_.current_phase) >>
            \o (IF previous_attempts_.attempted_fixes # <<>>
                THEN << <<"-", "-", "-", "P", "R", "E", "V", "I", "O", "U", "S", " ", "A", "T", "T", "E", "M", "P", "T", "S", "-", "-", "-">> >> \o numbered(previous_attempts_.attempted_fixes)
                ELSE <<>>)
            \o (IF previous_attempts_.user_responses # <<>>
                THEN << <<"-", "-", "-", "U", "S", "E", "R", " ", "R", "E", "S", "P", "O", "N", "S", "E", "S", "-", "-", "-">> >> \o numbered(previous_attempts_.user_responses)
                ELSE <<>>)
            \o << <<"-", "-", "-", "U", "S", "E", "R", " ", "S", "E", "N", "T", "I", "M", "E", "N", "T", "-", "-", "-">>,
                  <<"D", "e", "t", "e", "c", "t", "e", "d", ":", " ">> \o sentiment_value(ticket_.user_sentiment) >>
            \o (IF truthy(ticket_.latest_user_feedback)
                THEN << <<"L", "a", "t", "e", "s", "t", ":", " ", "\"">> \o ticket_.latest_user_feedback[1] \o <<"\"">> >>
                ELSE <<>>)
            \o << <<"-", "-", "-", "C", "R", "I", "T", "I", "C", "A", "L", "-", "-", "-">>,
                  <<"N", "E", "V", "E", "R", " ", "r", "e", "p", "e", "a", "t", " ", "t", "h", "e", " ", "p", "r", "e", "v", "i", "o", "u", "s", " ", "a", "t", "t", "e", "m", "p", "t", "s", " ", "a", "b", "o", "v", "e", ".", " ", "I", "f", " ", "a", " ", "f", "i", "x", " ", "d", "i", "d", "n", "'", "t", " ", "w", "o", "r", "k", " ", "(", "u", "s", "e", "r", " ", "s", "a", "i", "d", " ", "s", "o", ")", ",", " ", "m", "o", "v", "e", " ", "t", "o", " ", "a", " ", "D", "I", "F", "F", "E", "R", "E", "N", "T", " ", "a", "p", "p", "r", "o", "a", "c", "h", ".", " ", "S", "h", "o", "w", " ", "y", "o", "u", "'", "r", "e", " ", "l", "i", "s", "t", "e", "n", "i", "n", "g", ".">> >>
    IN join(<<"\n">>, context_parts)

-----------------------------------------------------------------------------
(* Replies of the generation service: JSON documents and their text        *)

\* a JSON value in a reply: absent key, null, a number, a string
JMissing == [t |-> "missing", s |-> <<>>]
JNull    == [t |-> "null",    s |-> <<>>]
JNum     == [t |-> "num",     s |-> <<>>]
JStr(s)  == [t |-> "str",     s |-> s]

\* AgentOutput field bounds (Field(max_length=...))
SUMMARY_MAX == 500
REASONING_MAX == 300
NEXT_STEP_MAX == 300
LEARNING_TIP_MAX == 250

\* the reply of the test suite's mocked client
GoodDoc ==
    [t |-> "obj", summary |-> JStr(<<"T", "e", "s", "t", " ", "r", "e", "s", "p", "o", "n", "s", "e">>), reasoning |-> JStr(<<"T", "e", "s", "t", " ", "r", "e", "a", "s", "o", "n", "i", "n", "g">>),
     next_step |-> JStr(<<"T", "e", "s", "t", " ", "s", "t", "e", "p">>), user_learning_tip |-> JNull]

\* a reply whose summary is the system text of the first EntryPool entry,
\* and one whose summary quotes a command between two runs of three backquotes
RepeatDoc == [GoodDoc EXCEPT !.summary = JStr(<<"C", "l", "e", "a", "r", " ", "y", "o", "u", "r", " ", "D", "N", "S", " ", "c", "a", "c", "h", "e", " ", "n", "o", "w">>)]
BacktickDoc ==
    [GoodDoc EXCEPT !.summary = JStr(<<"R", "u", "n", " ">> \o <<BT, BT, BT>> \o <<"i", "p", "c", "o", "n", "f", "i", "g", " ", "/", "f", "l", "u", "s", "h", "d", "n", "s">>
                                     \o <<BT, BT, BT>>)]

\* values tried for a required field whose bound is max
RequiredFieldValues(max) ==
    { JMissing, JNull, JNum, JStr(<<>>), JStr(<<" ", " ">>), JStr(<<" ", "R", "e", "b", "o", "o", "t", " ", "t", "h", "e", " ", "r", "o", "u", "t", "e", "r", " ">>),
      JStr(repeat("a", max)), JStr(repeat("a", max + 1)),
      JStr(<<" ">> \o repeat("a", max)) }

\* values tried for user_learning_tip
TipValues ==
    { JMissing, JNum, JStr(<<>>), JStr(<<"R", "e", "s", "t", "a", "r", "t", " ", "w", "e", "e", "k", "l", "y">>),
      JStr(repeat("b", LEARNING_TIP_MAX)), JStr(repeat("b", LEARNING_TIP_MAX + 1)) }

\* the JSON documents the service may answer with
Docs ==
    {GoodDoc, RepeatDoc, BacktickDoc}
    \cup { [GoodDoc EXCEPT !.summary = v] : v \in RequiredFieldValues(SUMMARY_MAX) }
    \cup { [GoodDoc EXCEPT !.reasoning = v] : v \in RequiredFieldValues(REASONING_MAX) }
    \cup { [GoodDoc EXCEPT !.next_step = v] : v \in RequiredFieldValues(NEXT_STEP_MAX) }
    \cup { [GoodDoc EXCEPT !.user_learning_tip = v] : v \in TipValues }
    \cup { [GoodDoc EXCEPT !.t = "list"], [GoodDoc EXCEPT !.t = "num"] }

\* json.dumps of a value
dump_value(v) ==
    CASE v.t = "null" -> <<"n", "u", "l", "l">>
      [] v.t = "num"  -> <<"7">>
      [] v.t = "str"  -> <<"\"">> \o v.s \o <<"\"">>

\* the "key": value member of an object, nothing for an absent key
dump_member(key, v) ==
    IF v.t = "missing" THEN <<>> ELSE << <<"\"">> \o key \o <<"\"", ":", " ">> \o dump_value(v) >>

\* json.dumps of a document: an object, the list [1] or the number 7
dump(d) ==
    CASE d.t = "list" -> <<"[", "1", "]">>
      [] d.t = "num"  -> <<"7">>
      [] d.t = "obj"  ->
            <<"{">> \o join(<<",", " ">>,
                           dump_member(<<"s", "u", "m", "m", "a", "r", "y">>, d.summary)
                        \o dump_member(<<"r", "e", "a", "s", "o", "n", "i", "n", "g">>, d.reasoning)
                        \o dump_member(<<"n", "e", "x", "t", "_", "s", "t", "e", "p">>, d.next_step)
                        \o dump_member(<<"u", "s", "e", "r", "_", "l", "e", "a", "r", "n", "i", "n", "g", "_", "t", "i", "p">>, d.user_learning_tip))
                 \o <<"}">>

\* the text of every document, computed once
DumpTable == [d \in Docs |-> dump(d)]

\* json.loads on the texts explored: a text is valid JSON iff it is the text
\* of a document; every other text explored raises JSONDecodeError
json_loads(text) ==
    IF \E d \in Docs : DumpTable[d] = text
    THEN [ok |-> TRUE,  value |-> CHOOSE d \in Docs : DumpTable[d] = text]
    ELSE [ok |-> FALSE, value |-> GoodDoc]

FENCE == <<BT, BT, BT>>

\* reply texts: bare documents, fenced and padded ones, and text that is no JSON
Replies ==
    { DumpTable[d] : d \in Docs }
    \cup { FENCE \o <<"j", "s", "o", "n", "\n">> \o DumpTable[GoodDoc] \o <<"\n">> \o FENCE,
           FENCE \o <<"\n">> \o DumpTable[GoodDoc] \o <<"\n">> \o FENCE,
           <<" ", "\n">> \o DumpTable[GoodDoc] \o <<"\n">>,
           FENCE \o <<"j", "s", "o", "n", "\n">> \o DumpTable[[GoodDoc EXCEPT !.summary = JNull]] \o <<"\n">> \o FENCE,
           FENCE \o <<"j", "s", "o", "n", "\n">> \o DumpTable[BacktickDoc] \o <<"\n">> \o FENCE,
           FENCE \o <<"\n">> \o DumpTable[BacktickDoc] \o <<"\n">> \o FENCE,
           FENCE \o <<"j", "s", "o", "n", "\n">> \o DumpTable[RepeatDoc] \o <<"\n">> \o FENCE,
           <<"i", "n", "v", "a", "l", "i", "d", " ", "j", "s", "o", "n">>,
           <<"{", "\"", "s", "u", "m", "m", "a", "r", "y", "\"", ":", " ", "\"", "T", "e", "s", "t", " ", "r", "e", "s", "p", "o", "n", "s", "e", "\"">>,
           FENCE,
           <<>> }

\* what the Bedrock client does with one invoke_model call
ServiceOutcomes ==
    { [kind |-> "raises", exc |-> e, text |-> <<>>] : e \in {"ClientError", "ReadTimeoutError"} }
    \cup { [kind |-> "body_not_json", exc |-> "none", text |-> <<>>],
           [kind |-> "body_no_content", exc |-> "none", text |-> <<>>] }
    \cup { [kind |-> "ok", exc |-> "none", text |-> r] : r \in Replies }

NoService == [kind |-> "idle", exc |-> "none", text |-> <<>>]

-----------------------------------------------------------------------------
(* AgentOutput and Agent._parse_response                                   *)

\* a validation without learning_tip_only_on_resolve
AgentOutput_valid_any_phase(phase, summary, reasoning, next_step, tip) ==
    /\ 1 <= Len(summary)   /\ Len(summary)   <= SUMMARY_MAX
    /\ 1 <= Len(reasoning) /\ Len(reasoning) <= REASONING_MAX
    /\ 1 <= Len(next_step) /\ Len(next_step) <= NEXT_STEP_MAX
    /\ tip.t \in {"missing", "null", "str"}
    /\ tip.t = "str" => Len(tip.s) <= LEARNING_TIP_MAX

\* AgentOutput's validation: length bounds, and learning_tip_only_on_resolve
\* (tip is the value of response_dict.get("user_learning_tip"))
AgentOutput_valid(phase, summary, reasoning, next_step, tip) ==
    /\ 1 <= Len(summary)   /\ Len(summary)   <= SUMMARY_MAX
    /\ 1 <= Len(reasoning) /\ Len(reasoning) <= REASONING_MAX
    /\ 1 <= Len(next_step) /\ Len(next_step) <= NEXT_STEP_MAX
    /\ tip.t \in {"missing", "null", "str"}
    /\ tip.t = "str" => Len(tip.s) <= LEARNING_TIP_MAX
    /\ tip.t = "str" => phase = "Resolved"

\* an AgentOutput that reports the default model instead of the agent's
AgentOutput_default_model(ticket_, summary, reasoning, next_step, tone_, sentiment_, tip, model_id) ==
    [ticket_id |-> ticket_.ticket_id, phase |-> ticket_.current_phase,
     summary |-> summary, reasoning |-> reasoning, next_step |-> next_step,
     tone_applied |-> tone_, sentiment_detected |-> sentiment_,
     user_learning_tip |-> IF tip.t = "str" THEN Some(tip.s) ELSE None,
     model_used |-> DefaultModelId]

\* the AgentOutput built by _parse_response (its timestamp, the wall clock
\* at construction, is left out)
AgentOutput(ticket_, summary, reasoning, next_step, tone_, sentiment_, tip, model_id) ==
    [ticket_id |-> ticket_.ticket_id, phase |-> ticket_.current_phase,
     summary |-> summary, reasoning |-> reasoning, next_step |-> next_step,
     tone_applied |-> tone_, sentiment_detected |-> sentiment_,
     user_learning_tip |-> IF tip.t = "str" THEN Some(tip.s) ELSE None,
     model_used |-> model_id]

\* the text handed to json.loads: stripped, taken out of a code fence
unwrap_fence(response_text_) ==
    LET stripped == strip(response_text_)
        inner == IF startswith(stripped, FENCE)
                 THEN LET piece == split(stripped, FENCE)[2] IN
                      IF startswith(piece, <<"j", "s", "o", "n">>) THEN drop(piece, 4) ELSE piece
                 ELSE stripped
    IN strip(inner)

\* response_dict.get(key, ""): the default stands in for an absent key only
dict_get(v) == IF v.t = "missing" THEN JStr(<<>>) ELSE v

\* a parser that rejects a summary the ticket's history already holds
parse_response_rejects_repetition(response_text_, ticket_, tone_, sentiment_) ==
    LET text == unwrap_fence(response_text_)
        parsed == json_loads(text)
        failed(type, cause) ==
            [raised |-> type, cause |-> cause, response_text |-> text, output |-> None]
    IN  IF ~parsed.ok THEN failed("ValueError", "JSONDecodeError")
        ELSE IF parsed.value.t # "obj" THEN failed("AttributeError", "none")
        ELSE LET summary   == dict_get(parsed.value.summary)
                 reasoning == dict_get(parsed.value.reasoning)
                 next_step == dict_get(parsed.value.next_step)
                 tip       == parsed.value.user_learning_tip
             IN  IF summary.t # "str" \/ reasoning.t # "str" \/ next_step.t # "str"
                 THEN failed("AttributeError", "none")
                 ELSE IF \/ ~AgentOutput_valid(ticket_.current_phase, strip(summary.s),
                                               strip(reasoning.s), strip(next_step.s), tip)
                         \/ \E i \in DOMAIN ticket_.context_history :
                                ticket_.context_history[i].what_we_said = strip(summary.s)
                 THEN failed("ValueError", "ValidationError")
                 ELSE [raised |-> "none", cause |-> "none", response_text |-> text,
                       output |-> Some(AgentOutput(ticket_, strip(summary.s), strip(reasoning.s),
                                                   strip(next_step.s), tone_, sentiment_, tip,
                                                   agent.model_id))]

\* _parse_response: raised is "none", "ValueError" (the except clause) or
\* "AttributeError" (.get on a non-dict, .strip() on a non-str: not caught);
\* response_text is the local as the except clause sees it
_parse_response(response_text_, ticket_, tone_, sentiment_) ==
    LET text == unwrap_fence(response_text_)
        parsed == json_loads(text)
        failed(type, cause) ==
            [raised |-> type, cause |-> cause, response_text |-> text, output |-> None]
    IN  IF ~parsed.ok THEN failed("ValueError", "JSONDecodeError")
        ELSE IF parsed.value.t # "obj" THEN failed("AttributeError", "none")
        ELSE LET summary   == dict_get(parsed.value.summary)
                 reasoning == dict_get(parsed.value.reasoning)
                 next_step == dict_get(parsed.value.next_step)
                 tip       == parsed.value.user_learning_tip
             IN  IF summary.t # "str" \/ reasoning.t # "str" \/ next_step.t # "str"
                 THEN failed("AttributeError", "none")
                 ELSE IF ~AgentOutput_valid(ticket_.current_phase, strip(summary.s),
                                            strip(reasoning.s), strip(next_step.s), tip)
                 THEN failed("ValueError", "ValidationError")
                 ELSE [raised |-> "none", cause |-> "none", response_text |-> text,
                       output |-> Some(AgentOutput(ticket_, strip(summary.s), strip(reasoning.s),
                                                   strip(next_step.s), tone_, sentiment_, tip,
                                                   agent.model_id))]

-----------------------------------------------------------------------------
(* process_ticket, step by step                                            *)

\* no exception has left process_ticket
NoError == [type |-> "none", message |-> "", cause |-> "none"]

\* characters of _call_bedrock's user_message around the two inserted texts
USER_MESSAGE_FIXED_LEN == 383

\* len(TONE_INSTRUCTIONS[tone])
tone_instruction_len(tone_) ==
    CASE tone_ = "initial" -> 225 [] tone_ = "empathetic" -> 206
      [] tone_ = "escalation" -> 207 [] tone_ = "celebratory" -> 177
      [] tone_ = "simplified" -> 167

\* the input check and the first log record (core.py 313-317)
ValidateInput ==
    /\ pc = "start"
    /\ IF ~isinstance_TicketState(ticket)
       THEN /\ error' = [type |-> "TypeError", message |-> "Expected TicketState", cause |-> "none"]
            /\ pc' = "raised"
            /\ log' = log
       ELSE /\ log' = Append(log, [level |-> "INFO", event |-> "processing",
                                   ticket |-> ticket.ticket_id, phase |-> ticket.current_phase])
            /\ pc' = "validated"
            /\ error' = error
    /\ UNCHANGED <<SENTIMENT_KEYWORDS_MAP, agent, ticket, previous_attempts, sentiment, tone,
                   user_context, requests, service, response_text, output>>
    /\ UNCHANGED <<call, retval, threads>>
    /\ UNCHANGED <<tickets, session_state>>

\* previous attempts, sentiment, tone and context text (core.py 319-331)
Prepare ==
    /\ pc = "validated"
    /\ LET attempts == _extract_previous_attempts(ticket.context_history)
           detected == _detect_sentiment(ticket.user_sentiment, ticket.latest_user_feedback)
       IN  /\ previous_attempts' = attempts
           /\ sentiment' = detected
           /\ tone' = _determine_tone(ticket.current_phase, detected)
           /\ user_context' = _build_user_context(ticket, attempts)
    /\ pc' = "prepared"
    /\ UNCHANGED <<SENTIMENT_KEYWORDS_MAP, agent, ticket, requests, service, response_text,
                   output, error, log>>
    /\ UNCHANGED <<call, retval, threads>>
    /\ UNCHANGED <<tickets, session_state>>

\* the request _call_bedrock passes to invoke_model
bedrock_request_for(user_context_, tone_) ==
    [modelId |-> agent.model_id, anthropic_version |-> "bedrock-2023-06-01",
     max_tokens |-> CLAUDE_MAX_TOKENS, system |-> SYSTEM_PROMPT,
     user_context |-> user_context_, tone_instruction |-> tone_]

\* the request of the one call the single-call variables describe
bedrock_request == bedrock_request_for(user_context, tone)

\* a client call made twice, as a retry would
invoke_model_twice(received, request) == Append(Append(received, request), request)

\* self.bedrock_client.invoke_model(...): the client receives one request
invoke_model(received, request) == Append(received, request)

\* the original exception let through unwrapped
raise_original(exc) == [type |-> exc, message |-> "", cause |-> "none"]

\* raise RuntimeError("Failed to generate response via Bedrock: ...") from e
raise_RuntimeError_from(exc) ==
    [type |-> "RuntimeError", message |-> "Failed to generate response via Bedrock", cause |-> exc]

\* the exception raised inside _call_bedrock's try block, "none" if none:
\* invoke_model's own, json.loads on the body, or the body's missing content
exception_in_call(outcome) ==
    CASE outcome.kind = "raises" -> outcome.exc
      [] outcome.kind = "body_not_json" -> "JSONDecodeError"
      [] outcome.kind = "body_no_content" -> "KeyError"
      [] outcome.kind = "ok" -> "none"

\* _call_bedrock (core.py 535-601)
CallBedrock ==
    /\ pc = "prepared"
    /\ \E outcome \in ServiceOutcomes :
         LET call_record ==
                 [level |-> "INFO", event |-> "bedrock_call", ticket |-> ticket.ticket_id,
                  phase |-> ticket.current_phase, tone |-> tone, sentiment |-> sentiment,
                  context_entries |-> Len(ticket.context_history),
                  context_len |-> Len(user_context),
                  message_len |-> USER_MESSAGE_FIXED_LEN + Len(user_context)
                                  + tone_instruction_len(tone)]
             exc == exception_in_call(outcome)
         IN  /\ requests' = invoke_model(requests, bedrock_request)
             /\ service' = outcome
             /\ IF exc # "none"
                THEN /\ log' = log \o << call_record,
                                         [level |-> "ERROR", event |-> "bedrock_error",
                                          ticket |-> ticket.ticket_id, exception |-> exc] >>
                     /\ error' = raise_RuntimeError_from(exc)
                     /\ pc' = "raised"
                     /\ response_text' = response_text
                ELSE /\ log' = log \o << call_record,
                                         [level |-> "INFO", event |-> "bedrock_response",
                                          ticket |-> ticket.ticket_id,
                                          response_len |-> Len(outcome.text)] >>
                     /\ response_text' = outcome.text
                     /\ pc' = "called"
                     /\ error' = error
    /\ UNCHANGED <<SENTIMENT_KEYWORDS_MAP, agent, ticket, previous_attempts, sentiment, tone,
                   user_context, output>>
    /\ UNCHANGED <<call, retval, threads>>
    /\ UNCHANGED <<tickets, session_state>>

\* _parse_response and the return of process_ticket (core.py 341-351, 625-654)
ParseResponse ==
    /\ pc = "called"
    /\ LET result == _parse_response(response_text, ticket, tone, sentiment) IN
         CASE result.raised = "none" ->
                /\ output' = result.output
                /\ log' = Append(log, [level |-> "INFO", event |-> "generated",
                                       ticket |-> ticket.ticket_id, tone |-> tone])
                /\ pc' = "returned"
                /\ error' = error
           [] result.raised = "ValueError" ->
                /\ error' = [type |-> "ValueError", message |-> "Invalid response from Bedrock",
                            cause |-> result.cause]
                /\ log' = log \o << [level |-> "ERROR", event |-> "parse_failed",
                                     exception |-> result.cause],
                                    [level |-> "ERROR", event |-> "response_text",
                                     text |-> take(result.response_text, 200)] >>
                /\ pc' = "raised"
                /\ output' = output
           [] result.raised = "AttributeError" ->
                /\ error' = [type |-> "AttributeError", message |-> "", cause |-> "none"]
                /\ pc' = "raised"
                /\ UNCHANGED <<output, log>>
    /\ UNCHANGED <<SENTIMENT_KEYWORDS_MAP, agent, ticket, previous_attempts, sentiment, tone,
                   user_context, requests, service, response_text>>
    /\ UNCHANGED <<call, retval, threads>>
    /\ UNCHANGED <<tickets, session_state>>

\* no function is called on its own, no calls run side by side
NoCall == [fn |-> "none"]
NoResult == "none"
NoThreads == <<>>

\* no adapter and no portal page exist
NoStore == <<>>
NoSession == [page |-> "none"]

NoAttempts == [attempted_fixes |-> <<>>, user_responses |-> <<>>, escalations |-> <<>>]

\* a constructed agent and one call of process_ticket about to start
Init ==
    /\ SENTIMENT_KEYWORDS_MAP = InitialKeywordsMap
    /\ agent \in Agents
    /\ ticket \in Tickets \cup {NotATicket}
    /\ pc = "start"
    /\ previous_attempts = NoAttempts
    /\ sentiment = "unset"
    /\ tone = "unset"
    /\ user_context = <<>>
    /\ requests = <<>>
    /\ service = NoService
    /\ response_text = <<>>
    /\ output = None
    /\ error = NoError
    /\ log = <<>>
    /\ call = NoCall
    /\ retval = NoResult
    /\ threads = NoThreads
    /\ tickets = NoStore
    /\ session_state = NoSession

Next == ValidateInput \/ Prepare \/ CallBedrock \/ ParseResponse

Spec == Init /\ [][Next]_vars

-----------------------------------------------------------------------------
(* The sentiment detector on its own, over feedback put together from      *)
(* pieces                                                                  *)

\* longest feedback, in pieces
MaxPieces == 3

Pieces == { <<"u", "g", "h">>, <<"M", "A", "D">>, <<"t", "h", "a", "n", "k", "s">>, <<"Y", "e", "s">>, <<"h", "u", "h">>, <<"o", "k">>, <<" ">>, <<"f", "e", "d">>, <<"u", "p">> }

RECURSIVE piece_texts(_)
piece_texts(n) ==
    IF n = 0 THEN {<<>>}
    ELSE LET shorter == piece_texts(n - 1) IN
         shorter \cup { t \o p : t \in shorter, p \in Pieces }

FrustratingButThanks == <<"t", "h", "i", "s", " ", "i", "s", " ", "s", "o", " ", "f", "r", "u", "s", "t", "r", "a", "t", "i", "n", "g", " ", "b", "u", "t", " ", "t", "h", "a", "n", "k", "s">>

DetectFeedbacks ==
    {None} \cup { Some(t) : t \in piece_texts(MaxPieces) }
           \cup { Some(FrustratingButThanks), Some(<<"g", "r", "e", "a", "t", ",", " ", "s", "t", "i", "l", "l", " ", "b", "r", "o", "k", "e", "n">>) }

InitDetect ==
    /\ SENTIMENT_KEYWORDS_MAP = InitialKeywordsMap
    /\ agent = DefaultAgent
    /\ \E p \in Sentiment, f \in DetectFeedbacks :
         ticket = [type |-> "TicketState", ticket_id |-> "TKT-001",
                   user_name |-> user_name_of("TKT-001"),
                   initial_issue |-> initial_issue_of("TKT-001"),
                   current_phase |-> "Received", context_history |-> <<>>,
                   user_sentiment |-> p, latest_user_feedback |-> f]
    /\ pc = "detect"
    /\ previous_attempts = NoAttempts
    /\ sentiment = "unset"
    /\ tone = "unset"
    /\ user_context = <<>>
    /\ requests = <<>>
    /\ service = NoService
    /\ response_text = <<>>
    /\ output = None
    /\ error = NoError
    /\ log = <<>>
    /\ call = NoCall
    /\ retval = NoResult
    /\ threads = NoThreads
    /\ tickets = NoStore
    /\ session_state = NoSession

\* one call of _detect_sentiment
Detect ==
    /\ pc = "detect"
    /\ sentiment' = _detect_sentiment(ticket.user_sentiment, ticket.latest_user_feedback)
    /\ pc' = "detected"
    /\ UNCHANGED <<SENTIMENT_KEYWORDS_MAP, agent, ticket, previous_attempts, tone, user_context,
                   requests, service, response_text, output, error, log>>
    /\ UNCHANGED <<call, retval, threads>>
    /\ UNCHANGED <<tickets, session_state>>

SpecDetect == InitDetect /\ [][Detect]_vars

-----------------------------------------------------------------------------
(* TicketState: construction, and what callers do to a built ticket        *)

\* HeuristicThresholds.CONTEXT_HISTORY_MAX_SIZE, CONTEXT_HISTORY_TRUNCATE_TO
CONTEXT_HISTORY_MAX_SIZE == 20
CONTEXT_HISTORY_TRUNCATE_TO == 15

\* v[-k:] for k > 0
slice_last(v, k) == SubSeq(v, IF Len(v) > k THEN Len(v) - k + 1 ELSE 1, Len(v))

\* a validator that keeps the oldest entries, v[:truncate_to]
validate_context_size_keep_first(v) ==
    IF Len(v) > CONTEXT_HISTORY_MAX_SIZE THEN SubSeq(v, 1, CONTEXT_HISTORY_TRUNCATE_TO) ELSE v

\* TicketState.validate_context_size
validate_context_size(v) ==
    IF Len(v) > CONTEXT_HISTORY_MAX_SIZE THEN slice_last(v, CONTEXT_HISTORY_TRUNCATE_TO) ELSE v

\* the i-th ContextEntry a caller hands over
entry_numbered(i) ==
    [phase |-> i, timestamp |-> "2025-10-18T09:00:00Z",
     what_we_said |-> <<"T", "r", "y", " ", "f", "i", "x", " ">> \o str_int(i),
     what_user_said_back |-> <<"F", "i", "x", " ">> \o str_int(i) \o <<" ", "d", "i", "d", "n", "'", "t", " ", "w", "o", "r", "k", ".">>,
     our_reasoning |-> <<"N", "e", "x", "t", " ", "i", "d", "e", "a">>]

\* longest list handed to the constructor, assigned, or grown by appending
MaxGiven == 26

GivenHistories == { [i \in 1..n |-> entry_numbered(i)] : n \in 0..MaxGiven }

\* values handed over as current_phase: the members of Phase, and the phase
\* name the ticket data and the timeline use besides them
PhaseArguments == Phase \cup {"Escalated"}

\* TicketState(ticket_id=..., current_phase=ph, context_history=given) is
\* about to run
InitTicket ==
    /\ SENTIMENT_KEYWORDS_MAP = InitialKeywordsMap
    /\ agent = DefaultAgent
    /\ ticket = NotATicket
    /\ pc = "construct"
    /\ previous_attempts = NoAttempts
    /\ sentiment = "unset"
    /\ tone = "unset"
    /\ user_context = <<>>
    /\ requests = <<>>
    /\ service = NoService
    /\ response_text = <<>>
    /\ output = None
    /\ error = NoError
    /\ log = <<>>
    /\ \E given \in GivenHistories, ph \in PhaseArguments :
           call = [fn |-> "TicketState", current_phase |-> ph, context_history |-> given]
    /\ retval = NoResult
    /\ threads = NoThreads
    /\ tickets = NoStore
    /\ session_state = NoSession

\* TicketState.__init__: the field validator runs on the list handed over
ConstructTicket ==
    /\ pc = "construct"
    /\ IF call.current_phase \notin Phase
       THEN /\ error' = [type |-> "ValidationError", message |-> "current_phase",
                         cause |-> "none"]
            /\ pc' = "raised"
            /\ UNCHANGED <<ticket, log>>
       ELSE /\ ticket' = [type |-> "TicketState", ticket_id |-> "TKT-001",
                          user_name |-> user_name_of("TKT-001"),
                          initial_issue |-> initial_issue_of("TKT-001"),
                          current_phase |-> call.current_phase,
                          context_history |-> validate_context_size(call.context_history),
                          user_sentiment |-> "neutral", latest_user_feedback |-> None]
            /\ log' = IF Len(call.context_history) > CONTEXT_HISTORY_MAX_SIZE
                      THEN Append(log, [level |-> "WARNING", event |-> "context_truncated"])
                      ELSE log
            /\ pc' = "constructed"
            /\ error' = error
    /\ UNCHANGED <<SENTIMENT_KEYWORDS_MAP, agent, previous_attempts, sentiment, tone,
                   user_context, requests, service, response_text, output>>
    /\ UNCHANGED <<call, retval, threads>>
    /\ UNCHANGED <<tickets, session_state>>

\* ticket.context_history.append(entry): the list object grows in place, no
\* validator runs
AppendEntry ==
    /\ pc \in {"constructed", "changed"}
    /\ Len(ticket.context_history) < MaxGiven
    /\ ticket' = [ticket EXCEPT !.context_history =
                      Append(@, entry_numbered(Len(ticket.context_history) + 1))]
    /\ pc' = "changed"
    /\ UNCHANGED <<SENTIMENT_KEYWORDS_MAP, agent, previous_attempts, sentiment, tone,
                   user_context, requests, service, response_text, output, error, log>>
    /\ UNCHANGED <<call, retval, threads>>
    /\ UNCHANGED <<tickets, session_state>>

\* ticket.context_history = new_list: the model does not validate assignments
AssignHistory ==
    /\ pc \in {"constructed", "changed"}
    /\ \E new_list \in GivenHistories :
           ticket' = [ticket EXCEPT !.context_history = new_list]
    /\ pc' = "changed"
    /\ UNCHANGED <<SENTIMENT_KEYWORDS_MAP, agent, previous_attempts, sentiment, tone,
                   user_context, requests, service, response_text, output, error, log>>
    /\ UNCHANGED <<call, retval, threads>>
    /\ UNCHANGED <<tickets, session_state>>

NextTicket == ConstructTicket \/ AppendEntry \/ AssignHistory

SpecTicket == InitTicket /\ [][NextTicket]_vars

-----------------------------------------------------------------------------
(* The context text of process_ticket, over longer histories               *)

\* longest history put together from EntryPool
MaxPoolHistory == 3

ContextHistories ==
    UNION { [1..n -> EntryPool] : n \in 0..MaxPoolHistory } \cup GivenHistories

\* process_ticket has accepted its ticket and is about to prepare the call
InitContext ==
    /\ SENTIMENT_KEYWORDS_MAP = InitialKeywordsMap
    /\ agent = DefaultAgent
    /\ ticket \in { [type |-> "TicketState", ticket_id |-> "TKT-001",
                     user_name |-> user_name_of("TKT-001"),
                     initial_issue |-> initial_issue_of("TKT-001"), current_phase |-> ph,
                     context_history |-> h, user_sentiment |-> "neutral",
                     latest_user_feedback |-> f] :
                    ph \in Phase, h \in ContextHistories, f \in {None, Some(StillNotWorking)} }
    /\ pc = "validated"
    /\ previous_attempts = NoAttempts
    /\ sentiment = "unset"
    /\ tone = "unset"
    /\ user_context = <<>>
    /\ requests = <<>>
    /\ service = NoService
    /\ response_text = <<>>
    /\ output = None
    /\ error = NoError
    /\ log = <<[level |-> "INFO", event |-> "processing",
                 ticket |-> ticket.ticket_id, phase |-> ticket.current_phase]>>
    /\ call = NoCall
    /\ retval = NoResult
    /\ threads = NoThreads
    /\ tickets = NoStore
    /\ session_state = NoSession

SpecContext == InitContext /\ [][Prepare]_vars

-----------------------------------------------------------------------------
(* keyword_overlap_ratio and Agent.validate_no_repetition                  *)

RECURSIVE split_from(_, _, _, _)
\* str.split() from position i on: word is the run being read, acc the words
\* already closed; runs of whitespace separate words and yield no empty word
split_from(text, i, word, acc) ==
    IF i > Len(text) THEN (IF word = <<>> THEN acc ELSE Append(acc, word))
    ELSE IF text[i] \in WHITESPACE
         THEN split_from(text, i + 1, <<>>, IF word = <<>> THEN acc ELSE Append(acc, word))
         ELSE split_from(text, i + 1, Append(word, text[i]), acc)

\* str.split() without arguments
split_whitespace(text) == split_from(text, 1, <<>>, <<>>)

\* set(list)
set_of(list) == { list[i] : i \in DOMAIN list }

\* max(a, b) on integers
max_int(a, b) == IF a >= b THEN a ELSE b

\* a float that is the quotient of two small integers (0.0 is 0/1); the
\* comparisons below are exact on such quotients, as they are on the doubles
\* Python computes for token counts of this size
ratio(num_, den_) == [num |-> num_, den |-> den_]
ratio_gt(r, s) == r.num * s.den > s.num * r.den

\* an overlap that divides by the smaller token set
keyword_overlap_ratio_min(text_a, text_b) ==
    LET words_a == set_of(split_whitespace(lower(text_a)))
        words_b == set_of(split_whitespace(lower(text_b)))
    IN IF words_a = {} \/ words_b = {} THEN ratio(0, 1)
       ELSE ratio(Cardinality(words_a \cap words_b),
                  IF Cardinality(words_a) <= Cardinality(words_b)
                  THEN Cardinality(words_a) ELSE Cardinality(words_b))

\* an overlap that counts repeated words in the denominator
keyword_overlap_ratio_no_dedup(text_a, text_b) ==
    LET list_a == split_whitespace(lower(text_a))
        list_b == split_whitespace(lower(text_b))
    IN IF list_a = <<>> \/ list_b = <<>> THEN ratio(0, 1)
       ELSE ratio(Cardinality(set_of(list_a) \cap set_of(list_b)), max_int(Len(list_a), Len(list_b)))

keyword_overlap_ratio(text_a, text_b) ==
    LET words_a == set_of(split_whitespace(lower(text_a)))
        words_b == set_of(split_whitespace(lower(text_b)))
    IN IF words_a = {} \/ words_b = {} THEN ratio(0, 1)
       ELSE LET overlap == Cardinality(words_a \cap words_b)
                max_len == max_int(Cardinality(words_a), Cardinality(words_b))
            IN IF max_len > 0 THEN ratio(overlap, max_len) ELSE ratio(0, 1)

\* HeuristicThresholds.REPETITION_OVERLAP_THRESHOLD, 0.6
REPETITION_OVERLAP_THRESHOLD == ratio(6, 10)

\* words the texts compared are put together from
Vocabulary == { <<"d", "n", "s">>, <<"D", "N", "S">>, <<"c", "a", "c", "h", "e">>, <<"n", "o", "w">> }

\* most words in a text put together from Vocabulary
MaxWords == 3

\* texts compared: words joined by single spaces, and texts with other
\* whitespace, with padding, with nothing but whitespace, with other words
OverlapTexts ==
    { join(<<" ">>, ws) : ws \in UNION { [1..n -> Vocabulary] : n \in 0..MaxWords } }
    \cup { <<" ">>, <<"\t", "\n">>, <<" ", "d", "n", "s", " ", " ", "D", "N", "S", "\t", "c", "a", "c", "h", "e", "\n">>,
           <<"w", "i", "f", "i", ".", " ", "a", "d", "a", "p", "t", "e", "r", " ", "S", "e", "t", "t", "i", "n", "g", "s", " ", "r", "e", "s", "e", "t">> }

\* keyword_overlap_ratio(text_a, text_b) is about to run
InitOverlap ==
    /\ SENTIMENT_KEYWORDS_MAP = InitialKeywordsMap
    /\ agent = DefaultAgent
    /\ ticket = NotATicket
    /\ pc = "overlap"
    /\ previous_attempts = NoAttempts
    /\ sentiment = "unset"
    /\ tone = "unset"
    /\ user_context = <<>>
    /\ requests = <<>>
    /\ service = NoService
    /\ response_text = <<>>
    /\ output = None
    /\ error = NoError
    /\ log = <<>>
    /\ \E a \in OverlapTexts, b \in OverlapTexts :
           call = [fn |-> "keyword_overlap_ratio", text_a |-> a, text_b |-> b]
    /\ retval = NoResult
    /\ threads = NoThreads
    /\ tickets = NoStore
    /\ session_state = NoSession

\* one call of keyword_overlap_ratio
Overlap ==
    /\ pc = "overlap"
    /\ retval' = keyword_overlap_ratio(call.text_a, call.text_b)
    /\ pc' = "compared"
    /\ UNCHANGED <<SENTIMENT_KEYWORDS_MAP, agent, ticket, previous_attempts, sentiment, tone,
                   user_context, requests, service, response_text, output, error, log>>
    /\ UNCHANGED <<call, threads>>
    /\ UNCHANGED <<tickets, session_state>>

SpecOverlap == InitOverlap /\ [][Overlap]_vars

-----------------------------------------------------------------------------
\* a check that fires at the threshold itself
validate_no_repetition_at_threshold(new_summary, context_history) ==
    \A i \in DOMAIN context_history :
        ~ratio_gt(keyword_overlap_ratio(new_summary, context_history[i].what_we_said),
                  REPETITION_OVERLAP_THRESHOLD)
        /\ keyword_overlap_ratio(new_summary, context_history[i].what_we_said).num * 10
               # 6 * keyword_overlap_ratio(new_summary, context_history[i].what_we_said).den

\* a check that looks at the most recent entry only
validate_no_repetition_latest_only(new_summary, context_history) ==
    IF context_history = <<>> THEN TRUE
    ELSE ~ratio_gt(keyword_overlap_ratio(new_summary,
                       context_history[Len(context_history)].what_we_said),
                   REPETITION_OVERLAP_THRESHOLD)

\* Agent.validate_no_repetition: False at the first entry whose overlap with
\* new_summary is above the threshold, True when the loop finds none
validate_no_repetition(new_summary, context_history) ==
    IF context_history = <<>> THEN TRUE
    ELSE ~ \E i \in 1..Len(context_history) :
               ratio_gt(keyword_overlap_ratio(new_summary, context_history[i].what_we_said),
                        REPETITION_OVERLAP_THRESHOLD)

\* system texts of earlier entries, and the new summaries checked against them
PriorTexts ==
    { <<"C", "l", "e", "a", "r", " ", "y", "o", "u", "r", " ", "D", "N", "S", " ", "c", "a", "c", "h", "e", " ", "n", "o", "w">>, <<"C", "h", "e", "c", "k", " ", "y", "o", "u", "r", " ", "n", "e", "t", "w", "o", "r", "k", " ", "a", "d", "a", "p", "t", "e", "r", " ", "s", "e", "t", "t", "i", "n", "g", "s">>,
      <<"R", "e", "s", "t", "a", "r", "t", " ", "y", "o", "u", "r", " ", "r", "o", "u", "t", "e", "r">> }

Summaries ==
    { <<"P", "l", "e", "a", "s", "e", " ", "c", "l", "e", "a", "r", " ", "y", "o", "u", "r", " ", "D", "N", "S", " ", "c", "a", "c", "h", "e", " ", "n", "o", "w">>, <<"C", "h", "e", "c", "k", " ", "y", "o", "u", "r", " ", "n", "e", "t", "w", "o", "r", "k", " ", "a", "d", "a", "p", "t", "e", "r", " ", "s", "e", "t", "t", "i", "n", "g", "s">>,
      <<"c", "l", "e", "a", "r", " ", "y", "o", "u", "r", " ", "d", "n", "s", " ", "a", "d", "a", "p", "t", "e", "r", " ", "s", "e", "t", "t", "i", "n", "g", "s">>, <<"C", "l", "e", "a", "r", " ", "y", "o", "u", "r", " ", "D", "N", "S">>, <<>>,
      <<"R", "e", "i", "n", "s", "t", "a", "l", "l", " ", "t", "h", "e", " ", "n", "e", "t", "w", "o", "r", "k", " ", "d", "r", "i", "v", "e", "r">> }

prior_entry(text) ==
    [phase |-> 1, timestamp |-> "2025-10-18T09:00:00Z", what_we_said |-> text,
     what_user_said_back |-> StillNotWorking, our_reasoning |-> <<"F", "i", "r", "s", "t", " ", "i", "d", "e", "a">>]

\* longest history handed to validate_no_repetition
MaxPriors == 2

PriorHistories ==
    UNION { { [i \in 1..n |-> prior_entry(texts[i])] : texts \in [1..n -> PriorTexts] } :
            n \in 0..MaxPriors }

\* agent.validate_no_repetition(new_summary, context_history) is about to run
InitRepetition ==
    /\ SENTIMENT_KEYWORDS_MAP = InitialKeywordsMap
    /\ agent = DefaultAgent
    /\ ticket = NotATicket
    /\ pc = "repetition"
    /\ previous_attempts = NoAttempts
    /\ sentiment = "unset"
    /\ tone = "unset"
    /\ user_context = <<>>
    /\ requests = <<>>
    /\ service = NoService
    /\ response_text = <<>>
    /\ output = None
    /\ error = NoError
    /\ log = <<>>
    /\ \E s \in Summaries, h \in PriorHistories :
           call = [fn |-> "validate_no_repetition", new_summary |-> s, context_history |-> h]
    /\ retval = NoResult
    /\ threads = NoThreads
    /\ tickets = NoStore
    /\ session_state = NoSession

\* one call of validate_no_repetition: the verdict, and the record it logs
\* (nothing for an empty history, a warning on repetition, else a debug line)
ValidateNoRepetition ==
    /\ pc = "repetition"
    /\ retval' = validate_no_repetition(call.new_summary, call.context_history)
    /\ log' = IF call.context_history = <<>> THEN log
              ELSE IF retval' = FALSE
                   THEN Append(log, [level |-> "WARNING", event |-> "high_overlap"])
                   ELSE Append(log, [level |-> "DEBUG", event |-> "repetition_check_passed"])
    /\ pc' = "checked"
    /\ UNCHANGED <<SENTIMENT_KEYWORDS_MAP, agent, ticket, previous_attempts, sentiment, tone,
                   user_context, requests, service, response_text, output, error>>
    /\ UNCHANGED <<call, threads>>
    /\ UNCHANGED <<tickets, session_state>>

SpecRepetition == InitRepetition /\ [][ValidateNoRepetition]_vars

-----------------------------------------------------------------------------
(* Several process_ticket calls on one agent, their steps interleaved.  A  *)
(* call's locals live in its own record of threads; the agent, the keyword *)
(* tables, the client (requests) and the logger (log) are shared.          *)

\* what the client answers with while calls run side by side
ConcOutcomes ==
    { [kind |-> "raises", exc |-> "ClientError", text |-> <<>>],
      [kind |-> "ok", exc |-> "none", text |-> DumpTable[GoodDoc]],
      [kind |-> "ok", exc |-> "none",
       text |-> DumpTable[[GoodDoc EXCEPT !.user_learning_tip = JStr(<<"R", "e", "s", "t", "a", "r", "t", " ", "w", "e", "e", "k", "l", "y">>)]]],
      [kind |-> "ok", exc |-> "none", text |-> DumpTable[[GoodDoc EXCEPT !.t = "list"]]],
      [kind |-> "ok", exc |-> "none", text |-> <<"i", "n", "v", "a", "l", "i", "d", " ", "j", "s", "o", "n">>] }

\* the arguments the call for ticket id may be given
ConcArgs(id) ==
    { [type |-> "TicketState", ticket_id |-> id, user_name |-> user_name_of(id),
       initial_issue |-> initial_issue_of(id), current_phase |-> ph,
       context_history |-> <<>>, user_sentiment |-> "neutral", latest_user_feedback |-> f] :
      ph \in {"Diagnosed", "Resolved"}, f \in {None, Some(StillNotWorking)} }
    \cup {NotATicket}

\* a call that has not started: its argument, and locals not yet bound
new_call(arg) ==
    [ticket |-> arg, pc |-> "start", previous_attempts |-> NoAttempts, sentiment |-> "unset",
     tone |-> "unset", user_context |-> <<>>, service |-> NoService, response_text |-> <<>>,
     output |-> None, error |-> NoError, earlier |-> {}]

\* how a call ended, as its caller sees it
outcome_of(th) == [pc |-> th.pc, output |-> th.output, error |-> th.error]

\* the outcomes of the calls that have ended
ended_calls == { outcome_of(threads[j]) : j \in { k \in DOMAIN threads : threads[k].pc \in {"returned", "raised"} } }

InitConc ==
    /\ SENTIMENT_KEYWORDS_MAP = InitialKeywordsMap
    /\ agent = DefaultAgent
    /\ ticket = NotATicket
    /\ pc = "threads"
    /\ previous_attempts = NoAttempts
    /\ sentiment = "unset"
    /\ tone = "unset"
    /\ user_context = <<>>
    /\ requests = <<>>
    /\ service = NoService
    /\ response_text = <<>>
    /\ output = None
    /\ error = NoError
    /\ log = <<>>
    /\ call = NoCall
    /\ retval = NoResult
    /\ threads \in { [id \in TicketIds |-> new_call(arg[id])] :
                     arg \in { a \in [TicketIds -> UNION { ConcArgs(id) : id \in TicketIds }] :
                               \A id \in TicketIds : a[id] \in ConcArgs(id) } }
    /\ tickets = NoStore
    /\ session_state = NoSession

\* a prepare step that stores the detected sentiment in the ticket
ThreadPrepare_writes_back(id) ==
    /\ threads[id].pc = "validated"
    /\ LET th == threads[id]
           attempts == _extract_previous_attempts(th.ticket.context_history)
           detected == _detect_sentiment(th.ticket.user_sentiment, th.ticket.latest_user_feedback)
       IN threads' = [threads EXCEPT ![id] =
              [th EXCEPT !.previous_attempts = attempts, !.sentiment = detected,
                         !.tone = _determine_tone(th.ticket.current_phase, detected),
                         !.user_context = _build_user_context(th.ticket, attempts),
                         !.ticket = [th.ticket EXCEPT !.user_sentiment = detected],
                         !.pc = "prepared"]]
    /\ UNCHANGED <<SENTIMENT_KEYWORDS_MAP, agent, ticket, pc, previous_attempts, sentiment, tone,
                   user_context, requests, service, response_text, output, error, log,
                   call, retval>>
    /\ UNCHANGED <<tickets, session_state>>

\* a parse step that reads the reply that reached the agent last, whichever
\* call it was for, as a reply kept on the agent would be read
ThreadParse_reply_on_agent(id) ==
    /\ threads[id].pc = "called"
    /\ LET th == threads[id]
           others == { j \in DOMAIN threads : j # id /\ threads[j].service.kind = "ok" }
           reply == IF others = {} THEN th.response_text
                    ELSE threads[CHOOSE j \in others : TRUE].response_text
           result == _parse_response(reply, th.ticket, th.tone, th.sentiment)
       IN /\ threads' = [threads EXCEPT ![id] =
                 IF result.raised = "none"
                 THEN [th EXCEPT !.output = result.output, !.pc = "returned"]
                 ELSE [th EXCEPT !.pc = "raised",
                                 !.error = [type |-> result.raised, message |-> "",
                                            cause |-> result.cause]]]
          /\ log' = log
    /\ UNCHANGED <<SENTIMENT_KEYWORDS_MAP, agent, ticket, pc, previous_attempts, sentiment, tone,
                   user_context, requests, service, response_text, output, error,
                   call, retval>>
    /\ UNCHANGED <<tickets, session_state>>

\* the input check and the first log record of the call for ticket id
ThreadValidate(id) ==
    /\ threads[id].pc = "start"
    /\ LET th == [threads[id] EXCEPT !.earlier = ended_calls] IN
         IF ~isinstance_TicketState(th.ticket)
         THEN /\ threads' = [threads EXCEPT ![id] =
                     [th EXCEPT !.pc = "raised",
                                !.error = [type |-> "TypeError", message |-> "Expected TicketState",
                                           cause |-> "none"]]]
              /\ log' = log
         ELSE /\ threads' = [threads EXCEPT ![id] = [th EXCEPT !.pc = "validated"]]
              /\ log' = Append(log, [level |-> "INFO", event |-> "processing",
                                     ticket |-> th.ticket.ticket_id,
                                     phase |-> th.ticket.current_phase])
    /\ UNCHANGED <<SENTIMENT_KEYWORDS_MAP, agent, ticket, pc, previous_attempts, sentiment, tone,
                   user_context, requests, service, response_text, output, error,
                   call, retval>>
    /\ UNCHANGED <<tickets, session_state>>

\* previous attempts, sentiment, tone and context text of the call for id
ThreadPrepare(id) ==
    /\ threads[id].pc = "validated"
    /\ LET th == threads[id]
           attempts == _extract_previous_attempts(th.ticket.context_history)
           detected == _detect_sentiment(th.ticket.user_sentiment, th.ticket.latest_user_feedback)
       IN threads' = [threads EXCEPT ![id] =
              [th EXCEPT !.previous_attempts = attempts, !.sentiment = detected,
                         !.tone = _determine_tone(th.ticket.current_phase, detected),
                         !.user_context = _build_user_context(th.ticket, attempts),
                         !.pc = "prepared"]]
    /\ UNCHANGED <<SENTIMENT_KEYWORDS_MAP, agent, ticket, pc, previous_attempts, sentiment, tone,
                   user_context, requests, service, response_text, output, error, log,
                   call, retval>>
    /\ UNCHANGED <<tickets, session_state>>

\* _call_bedrock of the call for id, on the client all calls share
ThreadCall(id) ==
    /\ threads[id].pc = "prepared"
    /\ \E outcome \in ConcOutcomes :
         LET th == threads[id]
             call_record ==
                 [level |-> "INFO", event |-> "bedrock_call", ticket |-> th.ticket.ticket_id,
                  phase |-> th.ticket.current_phase, tone |-> th.tone,
                  sentiment |-> th.sentiment,
                  context_entries |-> Len(th.ticket.context_history),
                  context_len |-> Len(th.user_context),
                  message_len |-> USER_MESSAGE_FIXED_LEN + Len(th.user_context)
                                  + tone_instruction_len(th.tone)]
             exc == exception_in_call(outcome)
         IN  /\ requests' = invoke_model(requests, bedrock_request_for(th.user_context, th.tone))
             /\ IF exc # "none"
                THEN /\ log' = log \o << call_record,
                                         [level |-> "ERROR", event |-> "bedrock_error",
                                          ticket |-> th.ticket.ticket_id, exception |-> exc] >>
                     /\ threads' = [threads EXCEPT ![id] =
                            [th EXCEPT !.service = outcome, !.pc = "raised",
                                       !.error = raise_RuntimeError_from(exc)]]
                ELSE /\ log' = log \o << call_record,
                                         [level |-> "INFO", event |-> "bedrock_response",
                                          ticket |-> th.ticket.ticket_id,
                                          response_len |-> Len(outcome.text)] >>
                     /\ threads' = [threads EXCEPT ![id] =
                            [th EXCEPT !.service = outcome, !.pc = "called",
                                       !.response_text = outcome.text]]
    /\ UNCHANGED <<SENTIMENT_KEYWORDS_MAP, agent, ticket, pc, previous_attempts, sentiment, tone,
                   user_context, service, response_text, output, error, call, retval>>
    /\ UNCHANGED <<tickets, session_state>>

\* _parse_response and the return of the call for id
ThreadParse(id) ==
    /\ threads[id].pc = "called"
    /\ LET th == threads[id]
           result == _parse_response(th.response_text, th.ticket, th.tone, th.sentiment)
       IN CASE result.raised = "none" ->
                /\ threads' = [threads EXCEPT ![id] =
                       [th EXCEPT !.output = result.output, !.pc = "returned"]]
                /\ log' = Append(log, [level |-> "INFO", event |-> "generated",
                                       ticket |-> th.ticket.ticket_id, tone |-> th.tone])
            [] result.raised = "ValueError" ->
                /\ threads' = [threads EXCEPT ![id] =
                       [th EXCEPT !.pc = "raised",
                                  !.error = [type |-> "ValueError",
                                             message |-> "Invalid response from Bedrock",
                                             cause |-> result.cause]]]
                /\ log' = log \o << [level |-> "ERROR", event |-> "parse_failed",
                                     exception |-> result.cause],
                                    [level |-> "ERROR", event |-> "response_text",
                                     text |-> take(result.response_text, 200)] >>
            [] result.raised = "AttributeError" ->
                /\ threads' = [threads EXCEPT ![id] =
                       [th EXCEPT !.pc = "raised",
                                  !.error = [type |-> "AttributeError", message |-> "",
                                             cause |-> "none"]]]
                /\ log' = log
    /\ UNCHANGED <<SENTIMENT_KEYWORDS_MAP, agent, ticket, pc, previous_attempts, sentiment, tone,
                   user_context, requests, service, response_text, output, error,
                   call, retval>>
    /\ UNCHANGED <<tickets, session_state>>

NextConc ==
    \E id \in TicketIds :
        ThreadValidate(id) \/ ThreadPrepare(id) \/ ThreadCall(id) \/ ThreadParse(id)

SpecConc == InitConc /\ [][NextConc]_vars

-----------------------------------------------------------------------------
(* agent/keywords.py: the keyword-mutation helpers, and detection after    *)
(* they ran                                                                *)

\* an add that stores the keyword as given, without lower()
add_sentiment_keyword_as_given(map, sentiment_, keyword) ==
    [map EXCEPT ![sentiment_] = @ \cup {keyword}]

\* add_sentiment_keyword past its category check: set.add(keyword.lower())
add_sentiment_keyword(map, sentiment_, keyword) ==
    [map EXCEPT ![sentiment_] = @ \cup {lower(keyword)}]

\* remove_sentiment_keyword past its category check:
\* set.discard(keyword.lower())
remove_sentiment_keyword(map, sentiment_, keyword) ==
    [map EXCEPT ![sentiment_] = @ \ {lower(keyword)}]

\* categories and keywords the helpers are called with, and the feedback
\* detection then runs on
CategoryArguments == {"frustrated", "satisfied", "confused", "angry"}
KeywordArguments == { <<"A", "n", "n", "o", "y", "i", "n", "g">>, <<"t", "h", "a", "n", "k", "s">> }
KeywordFeedbacks ==
    { None, Some(<<"T", "h", "i", "s", " ", "i", "s", " ", "s", "o", " ", "A", "N", "N", "O", "Y", "I", "N", "G">>), Some(<<"t", "h", "a", "n", "k", "s", " ", "a", " ", "l", "o", "t">>),
      Some(<<"A", "n", "n", "o", "y", "i", "n", "g", ",", " ", "b", "u", "t", " ", "t", "h", "a", "n", "k", "s">>) }

\* the module as imported, no helper called yet
InitKeywords ==
    /\ SENTIMENT_KEYWORDS_MAP = InitialKeywordsMap
    /\ agent \in Agents
    /\ ticket = NotATicket
    /\ pc = "keywords"
    /\ previous_attempts = NoAttempts
    /\ sentiment = "unset"
    /\ tone = "unset"
    /\ user_context = <<>>
    /\ requests = <<>>
    /\ service = NoService
    /\ response_text = <<>>
    /\ output = None
    /\ error = NoError
    /\ log = <<>>
    /\ call = NoCall
    /\ retval = NoResult
    /\ threads = NoThreads
    /\ tickets = NoStore
    /\ session_state = NoSession

\* one call of add_sentiment_keyword
AddKeyword ==
    /\ \E sentiment_ \in CategoryArguments, keyword \in KeywordArguments :
         /\ call' = [fn |-> "add_sentiment_keyword", sentiment |-> sentiment_,
                     keyword |-> keyword]
         /\ IF sentiment_ \notin DOMAIN SENTIMENT_KEYWORDS_MAP
            THEN /\ error' = [type |-> "ValueError", message |-> "Unknown sentiment",
                              cause |-> "none"]
                 /\ SENTIMENT_KEYWORDS_MAP' = SENTIMENT_KEYWORDS_MAP
            ELSE /\ error' = NoError
                 /\ SENTIMENT_KEYWORDS_MAP' =
                        add_sentiment_keyword(SENTIMENT_KEYWORDS_MAP, sentiment_, keyword)
    /\ retval' = NoResult
    /\ UNCHANGED <<agent, ticket, pc, previous_attempts, sentiment, tone, user_context,
                   requests, service, response_text, output, log, threads>>
    /\ UNCHANGED <<tickets, session_state>>

\* one call of remove_sentiment_keyword
RemoveKeyword ==
    /\ \E sentiment_ \in CategoryArguments, keyword \in KeywordArguments :
         /\ call' = [fn |-> "remove_sentiment_keyword", sentiment |-> sentiment_,
                     keyword |-> keyword]
         /\ IF sentiment_ \notin DOMAIN SENTIMENT_KEYWORDS_MAP
            THEN /\ error' = [type |-> "ValueError", message |-> "Unknown sentiment",
                              cause |-> "none"]
                 /\ SENTIMENT_KEYWORDS_MAP' = SENTIMENT_KEYWORDS_MAP
            ELSE /\ error' = NoError
                 /\ SENTIMENT_KEYWORDS_MAP' =
                        remove_sentiment_keyword(SENTIMENT_KEYWORDS_MAP, sentiment_, keyword)
    /\ retval' = NoResult
    /\ UNCHANGED <<agent, ticket, pc, previous_attempts, sentiment, tone, user_context,
                   requests, service, response_text, output, log, threads>>
    /\ UNCHANGED <<tickets, session_state>>

\* one call of the agent's _detect_sentiment, on the tables as they are now
DetectWithTables ==
    /\ \E initial_sentiment \in {"neutral", "satisfied"}, latest_feedback \in KeywordFeedbacks :
         /\ call' = [fn |-> "_detect_sentiment", initial_sentiment |-> initial_sentiment,
                     latest_feedback |-> latest_feedback]
         /\ retval' = _detect_sentiment(initial_sentiment, latest_feedback)
    /\ error' = NoError
    /\ UNCHANGED <<SENTIMENT_KEYWORDS_MAP, agent, ticket, pc, previous_attempts, sentiment,
                   tone, user_context, requests, service, response_text, output, log, threads>>
    /\ UNCHANGED <<tickets, session_state>>

NextKeywords == AddKeyword \/ RemoveKeyword \/ DetectWithTables

SpecKeywords == InitKeywords /\ [][NextKeywords]_vars

-----------------------------------------------------------------------------
(* data/adapters.py: the mock ticket store                                 *)

\* a StatusEvent (the fields the store's operations read or write)
StatusEvent(time, phase, summary, user_feedback) ==
    [time |-> time, phase |-> phase, summary |-> summary, user_feedback |-> user_feedback]

\* a data-layer TicketState
StoredTicket(ticket_id, status_events) ==
    [ticket_id |-> ticket_id, title |-> initial_issue_of(ticket_id),
     user_name |-> user_name_of(ticket_id), user_tone |-> "frustrated",
     status_events |-> status_events]

\* the store after load_tickets: a ticket whose last event has a summary, one
\* whose last event has none, one without events
LoadedTickets ==
    [id \in {"TKT-001", "TKT-002", "TKT-003"} |->
        CASE id = "TKT-001" ->
                 StoredTicket(id, << StatusEvent("09:00", "Received", None, None),
                                     StatusEvent("09:30", "Diagnosed",
                                                 Some(<<"C", "l", "e", "a", "r", " ", "y", "o", "u", "r", " ", "D", "N", "S", " ", "c", "a", "c", "h", "e", " ", "n", "o", "w">>),
                                                 Some(StillNotWorking)) >>)
          [] id = "TKT-002" ->
                 StoredTicket(id, << StatusEvent("10:00", "Diagnosed",
                                                 Some(<<"C", "h", "e", "c", "k", " ", "y", "o", "u", "r", " ", "n", "e", "t", "w", "o", "r", "k", " ", "a", "d", "a", "p", "t", "e", "r", " ", "s", "e", "t", "t", "i", "n", "g", "s">>),
                                                 Some(<<"O", "k", ",", " ", "I", "'", "l", "l", " ", "t", "r", "y", " ", "t", "h", "a", "t", ".">>)),
                                     StatusEvent("11:00", "Resolved", None,
                                                 Some(<<"T", "h", "a", "t", " ", "w", "o", "r", "k", "e", "d", "!", " ", "T", "h", "a", "n", "k", "s", " ", "s", "o", " ", "m", "u", "c", "h", "!">>)) >>)
          [] id = "TKT-003" -> StoredTicket(id, <<>>)]

\* arguments of update_context_history
TicketIdArguments == {"TKT-001", "TKT-002", "TKT-003", "TKT-404"}
SummaryArguments == { <<"R", "e", "s", "t", "a", "r", "t", " ", "y", "o", "u", "r", " ", "r", "o", "u", "t", "e", "r">>, <<"R", "e", "i", "n", "s", "t", "a", "l", "l", " ", "t", "h", "e", " ", "n", "e", "t", "w", "o", "r", "k", " ", "d", "r", "i", "v", "e", "r">>, <<>> }

\* TicketState.get_context_history: the events that have a summary or a
\* user reply
get_context_history(stored) ==
    LET kept == SelectSeq(stored.status_events,
                          LAMBDA event : truthy(event.summary) \/ truthy(event.user_feedback))
    IN [i \in 1..Len(kept) |->
           [phase |-> kept[i].phase, time |-> kept[i].time,
            what_we_said |-> kept[i].summary, user_response |-> kept[i].user_feedback]]

\* an update that writes the summary into the first event
set_first_summary(status_events, summary) ==
    [status_events EXCEPT ![1].summary = Some(summary)]

\* ticket.status_events[-1].summary = summary
set_last_summary(status_events, summary) ==
    [status_events EXCEPT ![Len(status_events)].summary = Some(summary)]

\* a MockTicketAdapter with its tickets loaded
InitStore ==
    /\ SENTIMENT_KEYWORDS_MAP = InitialKeywordsMap
    /\ agent = DefaultAgent
    /\ ticket = NotATicket
    /\ pc = "store"
    /\ previous_attempts = NoAttempts
    /\ sentiment = "unset"
    /\ tone = "unset"
    /\ user_context = <<>>
    /\ requests = <<>>
    /\ service = NoService
    /\ response_text = <<>>
    /\ output = None
    /\ error = NoError
    /\ log = <<>>
    /\ call = NoCall
    /\ retval = NoResult
    /\ threads = NoThreads
    /\ tickets = LoadedTickets
    /\ session_state = NoSession

\* MockTicketAdapter.update_context_history(ticket_id, summary, phase)
UpdateContextHistory ==
    /\ \E ticket_id \in TicketIdArguments, summary \in SummaryArguments,
          phase \in {"Diagnosed", "Resolved"} :
         /\ call' = [fn |-> "update_context_history", ticket_id |-> ticket_id,
                     summary |-> summary, phase |-> phase]
         /\ IF ticket_id \notin DOMAIN tickets
            THEN retval' = FALSE /\ tickets' = tickets
            ELSE IF tickets[ticket_id].status_events = <<>>
            THEN retval' = FALSE /\ tickets' = tickets
            ELSE /\ tickets' = [tickets EXCEPT ![ticket_id].status_events =
                                    set_last_summary(@, summary)]
                 /\ retval' = TRUE
    /\ UNCHANGED <<SENTIMENT_KEYWORDS_MAP, agent, ticket, pc, previous_attempts, sentiment,
                   tone, user_context, requests, service, response_text, output, error, log,
                   threads, session_state>>

SpecStore == InitStore /\ [][UpdateContextHistory]_vars

-----------------------------------------------------------------------------
(* ui/app.py: the ticket timeline of the portal page                       *)

\* data/mock_tickets.py: the ids of MOCK_TICKETS_DATA
MockTicketIds == {"TKT-001", "TKT-002", "TKT-003", "TKT-004",
                  "TKT-005", "TKT-006", "TKT-007", "TKT-008"}

\* the phases of a mock ticket's status_events, in order
status_event_phases(ticket_id) ==
    CASE ticket_id \in {"TKT-001", "TKT-006"} ->
             <<"Received", "Assigned", "Diagnosed", "Escalated", "Resolved">>
      [] ticket_id \in {"TKT-002", "TKT-008"} ->
             <<"Received", "Assigned", "Diagnosed", "Escalated">>
      [] ticket_id \in {"TKT-003", "TKT-005"} ->
             <<"Received", "Assigned", "Diagnosed", "Resolved">>
      [] OTHER -> <<"Received", "Assigned", "Diagnosed">>

\* the phase headers render_timeline draws for the page's ticket
timeline_phases(state) ==
    { status_event_phases(state.selected_ticket_id)[i] :
          i \in DOMAIN status_event_phases(state.selected_ticket_id) }

\* is_expanded = (st.session_state.expanded_phase == phase) or st.session_state.expand_all
is_expanded(state, phase) ==
    state.expanded_phase = Some(phase) \/ state.expand_all

\* the phases one run of render_timeline draws expanded
rendered_expanded(state) ==
    { phase \in timeline_phases(state) : is_expanded(state, phase) }

\* the page at its first run; render_timeline is given the timeline of any
\* ticket of the mock data
InitTimeline ==
    /\ SENTIMENT_KEYWORDS_MAP = InitialKeywordsMap
    /\ agent = DefaultAgent
    /\ ticket = NotATicket
    /\ pc = "page"
    /\ previous_attempts = NoAttempts
    /\ sentiment = "unset"
    /\ tone = "unset"
    /\ user_context = <<>>
    /\ requests = <<>>
    /\ service = NoService
    /\ response_text = <<>>
    /\ output = None
    /\ error = NoError
    /\ log = <<>>
    /\ call = NoCall
    /\ retval = NoResult
    /\ threads = NoThreads
    /\ tickets = NoStore
    /\ \E ticket_id \in MockTicketIds :
         session_state = [page |-> "portal", selected_ticket_id |-> ticket_id,
                          expanded_phase |-> None, expand_all |-> FALSE,
                          feedback_store |-> <<>>]

\* what a click leaves alone
TimelineUnchanged ==
    UNCHANGED <<SENTIMENT_KEYWORDS_MAP, agent, ticket, pc, previous_attempts, sentiment,
                tone, user_context, requests, service, response_text, output, error, log,
                threads, tickets>>

\* a click on "View All Phases" and the run that draws the page
ClickViewAll ==
    /\ call' = [fn |-> "render_timeline", click |-> "View All Phases"]
    /\ session_state' = [session_state EXCEPT !.expand_all = ~session_state.expand_all]
    /\ retval' = rendered_expanded(session_state')
    /\ TimelineUnchanged

\* a click on "Close All" and the run that draws the page
ClickCloseAll ==
    /\ call' = [fn |-> "render_timeline", click |-> "Close All"]
    /\ session_state' = [session_state EXCEPT !.expand_all = FALSE,
                                              !.expanded_phase = None]
    /\ retval' = rendered_expanded(session_state')
    /\ TimelineUnchanged

\* a phase click that leaves "View All" as it is
ClickPhase_keeps_view_all ==
    /\ \E phase \in timeline_phases(session_state) :
         /\ call' = [fn |-> "render_timeline", click |-> phase]
         /\ session_state' =
                [session_state EXCEPT
                     !.expanded_phase = IF session_state.expanded_phase = Some(phase)
                                        THEN None ELSE Some(phase)]
    /\ retval' = rendered_expanded(session_state')
    /\ TimelineUnchanged

\* a click on a phase header, and the run st.rerun() starts
ClickPhase ==
    /\ \E phase \in timeline_phases(session_state) :
         /\ call' = [fn |-> "render_timeline", click |-> phase]
         /\ session_state' =
                [session_state EXCEPT
                     !.expanded_phase = IF session_state.expanded_phase = Some(phase)
                                        THEN None ELSE Some(phase),
                     !.expand_all = FALSE]
    /\ retval' = rendered_expanded(session_state')
    /\ TimelineUnchanged

NextTimeline == ClickViewAll \/ ClickCloseAll \/ ClickPhase

SpecTimeline == InitTimeline /\ [][NextTimeline]_vars

-----------------------------------------------------------------------------
(* Properties                                                              *)

\* the steps of process_ticket after sentiment and tone were selected
Selected == pc \in {"prepared", "called", "returned", "raised"} /\ tone # "unset"

\* word occurs in text: some offset at which every character of word agrees
occurs(word, text) ==
    \E k \in 0..Len(text) :
        /\ k + Len(word) <= Len(text)
        /\ \A j \in 1..Len(word) : text[k + j] = word[j]

\* the lower-cased feedback holds a keyword of the category
matches(category, feedback) ==
    \E word \in SENTIMENT_KEYWORDS_MAP[category] : occurs(word, lower(feedback))

\* C1: _detect_sentiment returns the prior sentiment for absent or empty
\* feedback; otherwise frustrated if the lower-cased feedback holds a
\* frustrated keyword, else satisfied if it holds a satisfied keyword, else
\* confused if it holds a confused keyword, else the prior sentiment
C1_DetectPriority ==
    pc = "detected" =>
        LET p == ticket.user_sentiment
            f == ticket.latest_user_feedback
        IN  /\ (f = None \/ f = Some(<<>>)) => sentiment = p
            /\ (f # None /\ f # Some(<<>>)) =>
                 /\ matches("frustrated", f[1]) => sentiment = "frustrated"
                 /\ (~matches("frustrated", f[1]) /\ matches("satisfied", f[1]))
                        => sentiment = "satisfied"
                 /\ (~matches("frustrated", f[1]) /\ ~matches("satisfied", f[1])
                        /\ matches("confused", f[1])) => sentiment = "confused"
                 /\ (~matches("frustrated", f[1]) /\ ~matches("satisfied", f[1])
                        /\ ~matches("confused", f[1])) => sentiment = p

\* C1 witness: feedback matching a frustrated and a satisfied keyword, with
\* a satisfied prior estimate, was classified frustrated
C1_Witness ==
    /\ pc = "detected"
    /\ ticket.latest_user_feedback = Some(FrustratingButThanks)
    /\ ticket.user_sentiment = "satisfied"
    /\ matches("frustrated", FrustratingButThanks)
    /\ matches("satisfied", FrustratingButThanks)
    /\ sentiment = "frustrated"

RidiculousReplyTicket ==
    /\ ticket.type = "TicketState"
    /\ ticket.current_phase = "Diagnosed"
    /\ Len(ticket.context_history) = 1
    /\ ticket.context_history[1].what_user_said_back = StillNotWorking

\* C4 as claimed: for such a ticket, whatever its stored sentiment and
\* latest feedback, frustrated and empathetic are selected before the
\* generation service is invoked
C4_HistoryReplySelectsFrustrated ==
    (RidiculousReplyTicket /\ pc \notin {"start", "validated"})
        => (sentiment = "frustrated" /\ tone = "empathetic")

\* C4 as amended: for such a ticket whose latest feedback is that reply,
\* whatever its stored sentiment, frustrated and empathetic are selected
\* before the generation service is invoked, and the request carries them
C4_LatestFeedbackSelectsFrustrated ==
    (RidiculousReplyTicket /\ ticket.latest_user_feedback = Some(StillNotWorking)
        /\ pc \notin {"start", "validated"})
        => /\ sentiment = "frustrated"
           /\ tone = "empathetic"
           /\ \A i \in 1..Len(requests) : requests[i].tone_instruction = "empathetic"

\* C4 witness: selection made, service not yet invoked, stored estimate
\* satisfied
C4_Witness ==
    /\ RidiculousReplyTicket
    /\ ticket.latest_user_feedback = Some(StillNotWorking)
    /\ ticket.user_sentiment = "satisfied"
    /\ pc = "prepared"
    /\ requests = <<>>
    /\ sentiment = "frustrated"
    /\ tone = "empathetic"

\* C5: a returned AgentOutput echoes the ticket's id and phase, reports the
\* sentiment detected from the stored estimate and the latest feedback, the
\* tone selected from the phase and that sentiment, and the agent's model id
C5_OutputEchoesSelections ==
    pc = "returned" =>
        /\ output # None
        /\ output[1].ticket_id = ticket.ticket_id
        /\ output[1].phase = ticket.current_phase
        /\ output[1].sentiment_detected =
               _detect_sentiment(ticket.user_sentiment, ticket.latest_user_feedback)
        /\ output[1].tone_applied =
               _determine_tone(ticket.current_phase, output[1].sentiment_detected)
        /\ output[1].model_used = agent.model_id

\* C5 witness: an output for the second ticket, from the agent with its own
\* model id, where the feedback moved the sentiment off the stored estimate
C5_Witness ==
    /\ pc = "returned"
    /\ output # None
    /\ ticket.ticket_id = "TKT-002"
    /\ agent.model_id = OtherModelId
    /\ output[1].sentiment_detected # ticket.user_sentiment

C7_CallFailureWrapped ==
    service.kind = "raises" =>
        /\ pc = "raised"
        /\ error.type = "RuntimeError"
        /\ error.message = "Failed to generate response via Bedrock"
        /\ error.cause = service.exc
        /\ output = None

\* C7 witness: the client raised ClientError and process_ticket has raised
C7_Witness ==
    /\ service.kind = "raises"
    /\ service.exc = "ClientError"
    /\ pc = "raised"
    /\ error.cause = "ClientError"

\* C8: the service is invoked at most once per process_ticket, and exactly
\* once in every execution that ended after passing the input check
C8_AtMostOneInvocation ==
    /\ Len(requests) <= 1
    /\ (pc \in {"returned", "raised"} /\ error.type # "TypeError") => Len(requests) = 1

\* C8 witness: a rejected reply, after one invocation
C8_Witness ==
    /\ pc = "raised"
    /\ error.type = "ValueError"
    /\ service.kind = "ok"
    /\ Len(requests) = 1

\* the reply is an acceptable structured record for a ticket in the phase:
\* a JSON object whose summary, reasoning and next_step are non-blank
\* strings within their bounds and whose tip is null, or a string within
\* its bound on a Resolved ticket
acceptable_reply(text, phase) ==
    LET parsed == json_loads(unwrap_fence(text))
        good(v, max) == v.t = "str" /\ strip(v.s) # <<>> /\ Len(strip(v.s)) <= max
    IN  /\ parsed.ok
        /\ parsed.value.t = "obj"
        /\ good(parsed.value.summary, SUMMARY_MAX)
        /\ good(parsed.value.reasoning, REASONING_MAX)
        /\ good(parsed.value.next_step, NEXT_STEP_MAX)
        /\ \/ parsed.value.user_learning_tip.t \in {"null", "missing"}
           \/ /\ parsed.value.user_learning_tip.t = "str"
              /\ Len(parsed.value.user_learning_tip.s) <= LEARNING_TIP_MAX
              /\ phase = "Resolved"

\* C9 as claimed: every reply that is no acceptable structured record ends
\* process_ticket with a ValueError and no output
C9_InvalidReplyRaisesValueError ==
    (service.kind = "ok" /\ pc \in {"returned", "raised"}
        /\ ~acceptable_reply(service.text, ticket.current_phase))
        => (error.type = "ValueError" /\ output = None)

\* C10 as claimed: a response whose body is not valid JSON ends
\* process_ticket with a ValueError
C10_BadBodyRaisesValueError ==
    (service.kind = "body_not_json" /\ pc = "raised") => error.type = "ValueError"

\* the reply is a bare document with a string for user_learning_tip
reply_has_tip ==
    /\ service.kind = "ok"
    /\ \E d \in Docs : /\ DumpTable[d] = service.text
                       /\ d.t = "obj"
                       /\ d.user_learning_tip.t = "str"

\* C11: an AgentOutput with a phase other than Resolved and a tip fails
\* validation, so an output returned for a ticket that is not Resolved has
\* no tip, and a reply carrying a tip for such a ticket makes
\* process_ticket raise instead of returning the output without the tip
C11_TipOnlyOnResolved ==
    /\ \A ph \in Phase \ {"Resolved"} : \A tip \in TipValues :
           tip.t = "str" =>
               ~AgentOutput_valid(ph, GoodDoc.summary.s, GoodDoc.reasoning.s,
                                  GoodDoc.next_step.s, tip)
    /\ (pc = "returned" /\ ticket.current_phase # "Resolved")
           => output[1].user_learning_tip = None
    /\ (reply_has_tip /\ ticket.current_phase # "Resolved" /\ pc \in {"returned", "raised"})
           => (pc = "raised" /\ error.type = "ValueError" /\ output = None)

\* C11 witness: a reply with a tip within its bound, for a Diagnosed
\* ticket, was rejected
C11_Witness ==
    /\ service.kind = "ok"
    /\ service.text = DumpTable[[GoodDoc EXCEPT !.user_learning_tip = JStr(<<"R","e","s","t","a","r","t"," ","w","e","e","k","l","y">>)]]
    /\ ticket.current_phase = "Diagnosed"
    /\ pc = "raised"
    /\ error.type = "ValueError"
    /\ output = None

\* C12: constructing a TicketState with n context entries keeps all n in
\* their given order when n <= 20, and keeps exactly the last 15 in their
\* original relative order when n > 20; 25 entries give entries 11..25.
C12_ConstructionKeepsOrTruncates ==
    pc = "constructed" =>
        LET given == call.context_history
            kept == ticket.context_history
            n == Len(given)
        IN /\ n <= 20 => kept = given
           /\ n > 20 => /\ Len(kept) = 15
                        /\ \A i \in 1..15 : kept[i] = given[n - 15 + i]
           /\ n = 25 => [i \in 1..Len(kept) |-> kept[i].phase] = [i \in 1..15 |-> 10 + i]

C12_Witness ==
    /\ pc = "constructed"
    /\ Len(call.context_history) = 25
    /\ Len(ticket.context_history) = 15
    /\ ticket.context_history[1].phase = 11
    /\ ticket.context_history[15].phase = 25

\* C13: the context history of a TicketState never holds more than 20
\* entries, right after construction and after every append or assignment.
C13_HistoryNeverOver20 ==
    pc \in {"constructed", "changed"} => Len(ticket.context_history) <= 20

\* C14: for a ticket whose context history has n entries, the context text
\* lists the system-authored text of every entry as a previous attempt,
\* numbered 1..n in history order, and the user reply of every entry
\* likewise; nothing is dropped, duplicated, truncated or reordered.
C14_EveryAttemptListedInOrder ==
    pc = "prepared" =>
        LET h == ticket.context_history
            n == Len(h)
            lines == split(user_context, <<"\n">>)
        IN IF n = 0
           THEN \A k \in 1..Len(lines) :
                    lines[k] \notin {<<"-", "-", "-", "P", "R", "E", "V", "I", "O", "U", "S", " ", "A", "T", "T", "E", "M", "P", "T", "S", "-", "-", "-">>, <<"-", "-", "-", "U", "S", "E", "R", " ", "R", "E", "S", "P", "O", "N", "S", "E", "S", "-", "-", "-">>}
           ELSE /\ Len(lines) >= 2 * n + 6
                /\ lines[4] = <<"-", "-", "-", "P", "R", "E", "V", "I", "O", "U", "S", " ", "A", "T", "T", "E", "M", "P", "T", "S", "-", "-", "-">>
                /\ \A i \in 1..n : lines[4 + i] = str_int(i) \o <<".", " ">> \o h[i].what_we_said
                /\ lines[n + 5] = <<"-", "-", "-", "U", "S", "E", "R", " ", "R", "E", "S", "P", "O", "N", "S", "E", "S", "-", "-", "-">>
                /\ \A i \in 1..n :
                       lines[n + 5 + i] = str_int(i) \o <<".", " ">> \o h[i].what_user_said_back
                /\ lines[2 * n + 6] = <<"-", "-", "-", "U", "S", "E", "R", " ", "S", "E", "N", "T", "I", "M", "E", "N", "T", "-", "-", "-">>

C14_Witness ==
    /\ pc = "prepared"
    /\ Len(ticket.context_history) = 12
    /\ str_in(<<"\n", "1", "2", ".", " ", "T", "r", "y", " ", "f", "i", "x", " ", "1", "2", "\n", "-", "-", "-", "U", "S", "E", "R", " ", "R", "E", "S", "P", "O", "N", "S", "E", "S", "-", "-", "-", "\n", "1", ".", " ", "F", "i", "x", " ", "1", " ", "d", "i", "d", "n", "'", "t", " ", "w", "o", "r", "k", ".", "\n">>,
              user_context)

\* the lower-cased whitespace-delimited tokens of a text: every maximal run
\* of non-whitespace characters of the lower-cased text
tokens(text) ==
    LET t == lower(text)
        starts == { i \in 1..Len(t) : t[i] \notin WHITESPACE /\ (i = 1 \/ t[i - 1] \in WHITESPACE) }
        end(i) == CHOOSE j \in i..Len(t) :
                      /\ \A k \in i..j : t[k] \notin WHITESPACE
                      /\ (j = Len(t) \/ t[j + 1] \in WHITESPACE)
    IN { SubSeq(t, i, end(i)) : i \in starts }

\* C17: keyword_overlap_ratio(a, b) is 0 when the token set of a or of b is
\* empty, and otherwise |A \cap B| / max(|A|, |B|) over the sets of
\* lower-cased whitespace-delimited tokens; the result lies in [0, 1] and is
\* the same for (a, b) and (b, a).
C17_OverlapIsIntersectionOverMax ==
    pc = "compared" =>
        LET A == tokens(call.text_a)
            B == tokens(call.text_b)
        IN /\ (A = {} \/ B = {}) => retval.num = 0
           /\ (A # {} /\ B # {}) =>
                  /\ retval.den = (IF Cardinality(A) >= Cardinality(B)
                                   THEN Cardinality(A) ELSE Cardinality(B))
                  /\ retval.num = Cardinality(A \cap B)
           /\ retval.den > 0 /\ 0 <= retval.num /\ retval.num <= retval.den
           /\ retval = keyword_overlap_ratio(call.text_b, call.text_a)

C17_Witness ==
    /\ pc = "compared"
    /\ call.text_a = <<"d", "n", "s", " ", "D", "N", "S", " ", "c", "a", "c", "h", "e">>
    /\ call.text_b = <<"n", "o", "w", " ", "c", "a", "c", "h", "e", " ", "n", "o", "w">>
    /\ retval.num = 1 /\ retval.den = 2

\* C18 as stated: disjoint vocabularies give 0.0, and every text of length
\* >= 1, one of whitespace only included, compared with itself gives 1.0.
C18_DisjointZeroAnyNonEmptyTextOne ==
    pc = "compared" =>
        /\ tokens(call.text_a) \cap tokens(call.text_b) = {} => retval.num = 0
        /\ (call.text_a = call.text_b /\ Len(call.text_a) >= 1) => retval.num = retval.den

\* C18: disjoint vocabularies give 0.0; a text with at least one token
\* compared with itself gives 1.0, and a text without tokens (empty or
\* whitespace only) compared with itself gives 0.0.
C18_DisjointZeroTokenTextOne ==
    pc = "compared" =>
        /\ tokens(call.text_a) \cap tokens(call.text_b) = {} => retval.num = 0
        /\ (call.text_a = call.text_b /\ tokens(call.text_a) # {}) => retval.num = retval.den
        /\ (call.text_a = call.text_b /\ tokens(call.text_a) = {}) => retval.num = 0

C18_Witness ==
    /\ pc = "compared"
    /\ call.text_a = <<"d", "n", "s", " ", "D", "N", "S">>
    /\ call.text_b = call.text_a
    /\ retval.num = 1 /\ retval.den = 1

\* |A \cap B| and max(|A|, |B|) for the token sets of two texts, 0 and 1 when
\* either set is empty
shared_tokens(a, b) ==
    IF tokens(a) = {} \/ tokens(b) = {} THEN 0 ELSE Cardinality(tokens(a) \cap tokens(b))
larger_token_set(a, b) ==
    IF tokens(a) = {} \/ tokens(b) = {} THEN 1
    ELSE IF Cardinality(tokens(a)) >= Cardinality(tokens(b))
         THEN Cardinality(tokens(a)) ELSE Cardinality(tokens(b))

alone(t, outcome) ==
    IF t.type # "TicketState"
    THEN [pc |-> "raised", output |-> None,
          error |-> [type |-> "TypeError", message |-> "Expected TicketState", cause |-> "none"]]
    ELSE LET s == _detect_sentiment(t.user_sentiment, t.latest_user_feedback)
             tn == _determine_tone(t.current_phase, s)
             parsed == _parse_response(outcome.text, t, tn, s)
         IN IF outcome.kind = "raises"
            THEN [pc |-> "raised", output |-> None,
                  error |-> [type |-> "RuntimeError",
                             message |-> "Failed to generate response via Bedrock",
                             cause |-> outcome.exc]]
            ELSE IF parsed.raised = "none"
            THEN [pc |-> "returned", output |-> parsed.output, error |-> NoError]
            ELSE [pc |-> "raised", output |-> None,
                  error |-> [type |-> parsed.raised,
                             message |-> IF parsed.raised = "ValueError"
                                         THEN "Invalid response from Bedrock" ELSE "",
                             cause |-> parsed.cause]]

\* C19: process_ticket leaves what it was given unchanged on success and on
\* every error path -- the ticket (id, phase, stored sentiment, latest
\* feedback, context history), the keyword tables, the agent's configuration;
\* the detected sentiment is never written back to the ticket; and how a call
\* ends does not depend on the calls that ended before it started.
C19_InputsUnchangedNoCarryOver ==
    /\ [][ /\ \A id \in DOMAIN threads : threads'[id].ticket = threads[id].ticket
           /\ SENTIMENT_KEYWORDS_MAP' = SENTIMENT_KEYWORDS_MAP
           /\ agent' = agent ]_vars
    /\ [](\A id \in DOMAIN threads :
             /\ threads[id].ticket.user_sentiment = "neutral"
             /\ (threads[id].pc \in {"returned", "raised"} /\ threads[id].earlier # {})
                    => outcome_of(threads[id]) = alone(threads[id].ticket, threads[id].service))

C19_Witness ==
    /\ threads # NoThreads
    /\ threads["TKT-002"].pc = "returned"
    /\ threads["TKT-002"].sentiment = "frustrated"
    /\ threads["TKT-002"].ticket.user_sentiment = "neutral"
    /\ threads["TKT-002"].output[1].tone_applied = "empathetic"
    /\ \E e \in threads["TKT-002"].earlier : e.error.type = "RuntimeError"

\* C20: with no keyword-mutation helper running, concurrent process_ticket
\* calls for different tickets on one agent are independent: under every
\* interleaving of their steps each call ends with the outcome (output, or
\* error) it would have if it ran alone with the same service reply.
C20_EachCallEndsAsAlone ==
    threads # NoThreads =>
        \A id \in DOMAIN threads :
            threads[id].pc \in {"returned", "raised"}
                => outcome_of(threads[id]) = alone(threads[id].ticket, threads[id].service)

C20_Witness ==
    /\ threads # NoThreads
    /\ threads["TKT-001"].pc = "returned" /\ threads["TKT-002"].pc = "raised"
    /\ threads["TKT-001"].earlier = {} /\ threads["TKT-002"].earlier = {}
    /\ threads["TKT-001"].ticket.current_phase = "Resolved"
    /\ threads["TKT-001"].output[1].user_learning_tip # None
    /\ threads["TKT-002"].error.type = "ValueError"
    /\ threads["TKT-002"].service = threads["TKT-001"].service

\* the reply is RepeatDoc, bare or fenced, and the ticket's history holds the
\* entry whose system text is RepeatDoc's summary
repeated_summary_reply ==
    /\ pc \in {"returned", "raised"}
    /\ service.kind = "ok"
    /\ unwrap_fence(service.text) = DumpTable[RepeatDoc]
    /\ \E i \in DOMAIN ticket.context_history :
           ticket.context_history[i].what_we_said = RepeatDoc.summary.s

fenced(r) ==
    { FENCE \o <<"j", "s", "o", "n", "\n">> \o r \o <<"\n">> \o FENCE, FENCE \o <<"\n">> \o r \o <<"\n">> \o FENCE }

\* C22: wrapping a reply in a fenced code block does not change the result:
\* for every reply r accepted unwrapped, r wrapped in a fence (with or
\* without the json tag), a string value of r holding three backquotes
\* included, is accepted and yields the same AgentOutput fields.
C22_FenceDoesNotChangeResult ==
    (pc \in {"returned", "raised"} /\ service.kind = "ok") =>
        \A d \in Docs :
            (/\ service.text \in fenced(DumpTable[d])
             /\ _parse_response(DumpTable[d], ticket, tone, sentiment).raised = "none")
                => /\ pc = "returned"
                   /\ output = _parse_response(DumpTable[d], ticket, tone, sentiment).output

\* C23: no log record written during process_ticket, on success or on any
\* error path, holds ticket text or reply text; records carry identifiers,
\* enum values, lengths and counts only (the one field of a record of this
\* model that holds text is named text).
C23_NoTextInLog ==
    \A i \in DOMAIN log : "text" \notin DOMAIN log[i]

\* C24: a ticket whose current phase is Escalated (with one prior context
\* entry) can be constructed, and so handed to process_ticket.
C24_EscalatedTicketIsConstructed ==
    (call # NoCall /\ call.fn = "TicketState" /\ call.current_phase = "Escalated"
        /\ Len(call.context_history) = 1 /\ pc # "construct")
        => (ticket.type = "TicketState" /\ ticket.current_phase = "Escalated" /\ error = NoError)

\* C25: the system instruction sent to the generation service in every
\* process_ticket call is the system prompt the agent was constructed with.
C25_RequestCarriesAgentPrompt ==
    \A i \in DOMAIN requests : requests[i].system = agent.system_prompt

\* C26: within one process_ticket call the sentiment named in the context
\* text sent to the service (the line after the user-sentiment marker) is
\* the sentiment that selected the tone and that the AgentOutput reports.
C26_ContextNamesDetectedSentiment ==
    (pc \in {"prepared", "called", "returned", "raised"} /\ sentiment # "unset") =>
        LET lines == split(user_context, <<"\n">>) IN
            /\ \E k \in 1..(Len(lines) - 1) :
                   /\ lines[k] = <<"-", "-", "-", "U", "S", "E", "R", " ", "S", "E", "N", "T", "I", "M", "E", "N", "T", "-", "-", "-">>
                   /\ lines[k + 1] = <<"D", "e", "t", "e", "c", "t", "e", "d", ":", " ">> \o sentiment_value(sentiment)
            /\ tone = _determine_tone(ticket.current_phase, sentiment)
            /\ pc = "returned" => output[1].sentiment_detected = sentiment

\* the lower-case form of a keyword argument
lowered_argument(keyword) == IF keyword = <<"A", "n", "n", "o", "y", "i", "n", "g">> THEN <<"a", "n", "n", "o", "y", "i", "n", "g">> ELSE keyword

\* the category a feedback text falls into under the tables as they are
category_now(initial_sentiment, feedback) ==
    IF matches("frustrated", feedback) THEN "frustrated"
    ELSE IF matches("satisfied", feedback) THEN "satisfied"
    ELSE IF matches("confused", feedback) THEN "confused"
    ELSE initial_sentiment

\* the last call was a helper call (as opposed to a detection)
helper_called == call # NoCall /\ call.fn \in {"add_sentiment_keyword", "remove_sentiment_keyword"}

\* C27, the helpers: a call with a category outside {frustrated, satisfied,
\* confused} raises ValueError and changes no table; add puts the lower-cased
\* keyword into the named table only; remove takes it out of that table only,
\* and is a no-op for an absent keyword.
C27_HelperStep ==
    (call' # call /\ call'.fn \in {"add_sentiment_keyword", "remove_sentiment_keyword"}) =>
        LET c == call'.sentiment
            k == lowered_argument(call'.keyword)
            old == SENTIMENT_KEYWORDS_MAP
            new == SENTIMENT_KEYWORDS_MAP'
        IN /\ DOMAIN new = {"frustrated", "satisfied", "confused"}
           /\ c \notin {"frustrated", "satisfied", "confused"}
                  => (error'.type = "ValueError" /\ new = old)
           /\ c \in {"frustrated", "satisfied", "confused"} =>
                  /\ error' = NoError
                  /\ \A o \in DOMAIN old \ {c} : new[o] = old[o]
                  /\ call'.fn = "add_sentiment_keyword" => new[c] = old[c] \cup {k}
                  /\ call'.fn = "remove_sentiment_keyword" =>
                         /\ new[c] = old[c] \ {k}
                         /\ k \notin old[c] => new = old

\* C27, detection: every later detection, by any agent, uses the tables as
\* changed; feedback holding an added keyword, with no higher-priority match,
\* is classified into the keyword's category.
C27_DetectionUsesTables ==
    (call # NoCall /\ call.fn = "_detect_sentiment") =>
        /\ truthy(call.latest_feedback) =>
               retval = category_now(call.initial_sentiment, call.latest_feedback[1])
        /\ ~truthy(call.latest_feedback) => retval = call.initial_sentiment
        /\ \A c \in DOMAIN SENTIMENT_KEYWORDS_MAP :
               (/\ truthy(call.latest_feedback)
                /\ \E k \in SENTIMENT_KEYWORDS_MAP[c] \ InitialKeywordsMap[c] :
                       occurs(k, lower(call.latest_feedback[1]))
                /\ (c \in {"satisfied", "confused"}
                        => ~matches("frustrated", call.latest_feedback[1]))
                /\ (c = "confused" => ~matches("satisfied", call.latest_feedback[1])))
                   => retval = c

\* C27: after any sequence of add_sentiment_keyword and
\* remove_sentiment_keyword calls the helpers behave as in C27_HelperStep and
\* detection as in C27_DetectionUsesTables.
C27_KeywordHelpers == [][C27_HelperStep]_vars /\ []C27_DetectionUsesTables

C27_Witness ==
    /\ call # NoCall /\ call.fn = "_detect_sentiment"
    /\ agent.system_prompt = CustomPrompt
    /\ <<"a", "n", "n", "o", "y", "i", "n", "g">> \in SENTIMENT_KEYWORDS_MAP["confused"]
    /\ <<"a", "n", "n", "o", "y", "i", "n", "g">> \notin SENTIMENT_KEYWORDS_MAP["frustrated"]
    /\ <<"t", "h", "a", "n", "k", "s">> \notin SENTIMENT_KEYWORDS_MAP["satisfied"]
    /\ call.latest_feedback = Some(<<"A", "n", "n", "o", "y", "i", "n", "g", ",", " ", "b", "u", "t", " ", "t", "h", "a", "n", "k", "s">>)
    /\ call.initial_sentiment = "neutral"
    /\ retval = "confused"

\* C28, one call: update_context_history returns False and leaves the whole
\* store unchanged when the ticket id is unknown or the ticket has no status
\* events; otherwise it returns True and changes only the summary of that
\* ticket's last status event.
C28_UpdateStep ==
    LET id == call'.ticket_id
        has_events == id \in DOMAIN tickets /\ Len(tickets[id].status_events) > 0
    IN /\ ~has_events => (retval' = FALSE /\ tickets' = tickets)
       /\ has_events =>
              LET before == tickets[id].status_events
                  after == tickets'[id].status_events
                  n == Len(before)
              IN /\ retval' = TRUE
                 /\ DOMAIN tickets' = DOMAIN tickets
                 /\ \A o \in DOMAIN tickets \ {id} : tickets'[o] = tickets[o]
                 /\ [tickets'[id] EXCEPT !.status_events = before] = tickets[id]
                 /\ Len(after) = n
                 /\ \A i \in 1..(n - 1) : after[i] = before[i]
                 /\ [after[n] EXCEPT !.summary = before[n].summary] = before[n]
                 /\ after[n].summary = Some(call'.summary)

\* C28: every update_context_history call behaves as in C28_UpdateStep.
C28_UpdateChangesOnlyLastSummary == [][C28_UpdateStep]_vars

C28_Witness ==
    /\ call # NoCall /\ call.fn = "update_context_history"
    /\ call.ticket_id = "TKT-002"
    /\ retval = TRUE
    /\ tickets["TKT-002"].status_events[2].summary = Some(<<"R", "e", "s", "t", "a", "r", "t", " ", "y", "o", "u", "r", " ", "r", "o", "u", "t", "e", "r">>)
    /\ tickets["TKT-002"].status_events[1] = LoadedTickets["TKT-002"].status_events[1]
    /\ tickets["TKT-001"] = LoadedTickets["TKT-001"]

\* the summaries a ticket's context history holds
summaries_in(stored) ==
    { get_context_history(stored)[i].what_we_said : i \in DOMAIN get_context_history(stored) }
        \ {None}

\* C29: recording a new agent summary never loses an earlier one: every
\* summary in a ticket's context history before a successful
\* update_context_history call is still in it after the call.
C29_NoSummaryLost ==
    [][retval' = TRUE =>
           \A id \in DOMAIN tickets : summaries_in(tickets[id]) \subseteq summaries_in(tickets'[id])]_vars

C30_ClickStep ==
    LET click == call'.click
        drawn == rendered_expanded(session_state)
    IN /\ retval' = rendered_expanded(session_state')
       /\ click = "Close All" => retval' = {}
       /\ click = "View All Phases" =>
              /\ session_state'.expand_all = ~session_state.expand_all
              /\ session_state'.expanded_phase = session_state.expanded_phase
       /\ click \in timeline_phases(session_state) =>
              /\ ~session_state'.expand_all
              /\ click \notin drawn => retval' = {click}
              /\ (click \in drawn /\ ~session_state.expand_all) => retval' = {}
              /\ retval' \subseteq {click}

\* what is drawn in a state
C30_Drawn ==
    /\ ~session_state.expand_all => Cardinality(rendered_expanded(session_state)) <= 1
    /\ session_state.expand_all =>
           rendered_expanded(session_state) = timeline_phases(session_state)

=============================================================================
